---- MODULE Spec2Model ----
(***************************************************************************)
(* Log-to-flow conversion engine of juniper_gdi: the hooks                 *)
(* useAgentFlowParser (request grouper + step classifier) and useLogParser *)
(* (format detector + entry parser).                                       *)
(*                                                                         *)
(* Text.  A message is a sequence of tokens; its text is the tokens'       *)
(* texts concatenated.  A token is a marker literal the code searches for, *)
(* a white-space token (" " or "\n"), a list number ("1.") or a filler     *)
(* word.  No marker arises across a token boundary other than the          *)
(* multi-token markers spelled out below, so String.includes is a search   *)
(* for the marker's tokens.                                                *)
(***************************************************************************)
EXTENDS Integers, Sequences, FiniteSets, TLC

VARIABLES logData, requests, isLoading, error,
          entries, lpIsLoading, lpError, dataFormat, formatMessage,
          clsEntry, clsStep, clsDone,
          fnArg, fnResult, fnDone,
          conversations, cpIsLoading, cpError

vars == <<logData, requests, isLoading, error,
          entries, lpIsLoading, lpError, dataFormat, formatMessage,
          clsEntry, clsStep, clsDone,
          fnArg, fnResult, fnDone,
          conversations, cpIsLoading, cpError>>

flowVars == <<requests, isLoading, error>>
logVars == <<entries, lpIsLoading, lpError, dataFormat, formatMessage>>
clsVars == <<clsEntry, clsStep, clsDone>>
fnVars == <<fnArg, fnResult, fnDone>>
convVars == <<conversations, cpIsLoading, cpError>>

\* ------------------------------------------------------------- bounds
MaxLines == 4
MaxTokens == 2
MaxToolLines == 4
MaxPromptTokens == 4

\* ------------------------------------------------------------- values
\* An absent (undefined or null) atomic field, an absent text, the empty text.
Undefined == "<undefined>"
NoText == <<"<undefined>">>
EmptyStr == <<>>

\* ------------------------------------------------------------- text
IsWs(tok) == tok \in {" ", "\n"}

\* The case-sensitive marker literals a token's text contains.
Markers(tok) ==
  CASE tok = "Chat Agent model response:" -> {tok, "model response:"}
    [] tok = "Config Agent generating" -> {tok}
    [] tok = "Action 1/8 executed" -> {tok, "Action 1/"}
    [] tok = "Fetching truncated resources" -> {tok, "truncated resources"}
    [] tok = "Chat Agent added 2 relevant resources to chat context" -> {tok}
    [] tok = "Integration in progress. Using model:" -> {tok}
    [] OTHER -> {tok}

\* The lower-cased literals a token's lower-cased text contains.
LowerMarkers(tok) ==
  CASE tok \in {"Error:", "error"} -> {"error"}
    [] tok \in {"failed", "Failed"} -> {"failed"}
    [] tok \in {"System Prompt:", "system prompt:"} -> {"system prompt:"}
    [] OTHER -> {}

\* message.includes(marker), marker a single-token literal
Includes(m, marker) == \E i \in 1..Len(m) : marker \in Markers(m[i])

\* message.includes(pat), pat a literal that spans several tokens
IncludesSeq(m, pat) ==
  \E i \in 1..Len(m) :
     /\ i + Len(pat) - 1 <= Len(m)
     /\ SubSeq(m, i, i + Len(pat) - 1) = pat

\* message.toLowerCase().includes(marker)
LowerIncludes(m, marker) == \E i \in 1..Len(m) : marker \in LowerMarkers(m[i])

Min(S) == CHOOSE x \in S : \A y \in S : x <= y
Max(S) == CHOOSE x \in S : \A y \in S : y <= x

\* The least element of S, or d when S is empty
FirstOr(S, d) == IF S = {} THEN d ELSE Min(S)

\* message.indexOf(marker) as the position of the token that holds it (0: -1)
IndexOf(m, marker) == FirstOr({i \in 1..Len(m) : marker \in Markers(m[i])}, 0)

RECURSIVE TrimStart(_)
TrimStart(s) ==
  IF s = <<>> THEN <<>>
  ELSE IF IsWs(Head(s)) THEN TrimStart(Tail(s)) ELSE s

RECURSIVE TrimEnd(_)
TrimEnd(s) ==
  IF s = <<>> THEN <<>>
  ELSE IF IsWs(s[Len(s)]) THEN TrimEnd(SubSeq(s, 1, Len(s) - 1)) ELSE s

\* String.prototype.trim
Trim(s) == TrimEnd(TrimStart(s))

\* message.substring(index + marker.length), the marker ending token i
After(m, i) == SubSeq(m, i + 1, Len(m))

\* First position >= p holding a non-white-space token (Len+1: none).
SkipWs(c, p) == FirstOr({k \in p..Len(c) : ~IsWs(c[k])}, Len(c) + 1)

\* Start of the white-space run that ends right before position p.
WsRunStart(c, p) == FirstOr({j \in 1..p : \A k \in j..(p - 1) : IsWs(c[k])}, p)

\* (?:^|\n)\s* matches the white-space run j..p-1
LineStartRun(c, j, p) == j = 1 \/ \E k \in j..(p - 1) : c[k] = "\n"

\* (?:^|\n)\s* matches right before position p
AtLineStart(c, p) == LineStartRun(c, WsRunStart(c, p), p)

\* (?:^|\n)\s*\d+\. matches up to the list number at position j - 1
NumberedLineStart(c, j) == j > 1 /\ c[j - 1] = "1." /\ AtLineStart(c, j - 1)

\* (?:^|\n)\s*(?:\d+\.\s*)? matches right before position p
AtLabelStart(c, p) == AtLineStart(c, p) \/ NumberedLineStart(c, WsRunStart(c, p))

\* (?:\d+\.\s*)?(?:<labels>) matches at position k
LabelAt(c, k, labels) ==
  /\ k <= Len(c)
  /\ \/ c[k] \in labels
     \/ (c[k] = "1." /\ SkipWs(c, k + 1) <= Len(c) /\ c[SkipWs(c, k + 1)] \in labels)

\* (?=\n\s*(?:\d+\.\s*)?(?:<labels>)) holds at position e
LabelAhead(c, e, labels) ==
  e <= Len(c) /\ c[e] = "\n" /\ LabelAt(c, SkipWs(c, e + 1), labels)

\* Position of the first <label> at a label start (0: the pattern does not match)
SectionStart(c, label) ==
  FirstOr({p \in 1..Len(c) : c[p] = label /\ AtLabelStart(c, p)}, 0)

\* The lazy capture that starts at w: up to the next label line or the end
SectionFrom(c, w, stops) ==
  Trim(SubSeq(c, w, FirstOr({x \in w..Len(c) : LabelAhead(c, x, stops)}, Len(c) + 1) - 1))

\* Section extraction:
\* /(?:^|\n)\s*(?:\d+\.\s*)?<label>\s*([\s\S]*?)(?=\n\s*(?:\d+\.\s*)?(?:<stops>)|$)/
\* then .trim(); EmptyStr when the pattern does not match.
SectionMatch(c, label, stops) ==
  IF SectionStart(c, label) = 0 THEN EmptyStr
  ELSE SectionFrom(c, SkipWs(c, SectionStart(c, label) + 1), stops)

\* ------------------------------------------------------------- records
\* A LogEntry (src/lib/types.ts); an absent field is Undefined.  timestamp
\* is the entry's line number in the blob: blobs are drawn with strictly
\* increasing timestamps, so it also identifies the entry object.
Entry(message, level, logger, user_id, request_id, agent_name, system_prompt, action, timestamp) ==
  [message |-> message, level |-> level, logger |-> logger,
   user_id |-> user_id, request_id |-> request_id, agent_name |-> agent_name,
   system_prompt |-> system_prompt, action |-> action, timestamp |-> timestamp]

\* entry.message is a string (entry.message.includes(...) does not throw)
HasMessage(entry) == entry.message # NoText

\* A text is truthy unless it is undefined, null or "".
Truthy(a) == a # NoText /\ a # EmptyStr

\* a || b
OrElse(a, b) == IF Truthy(a) THEN a ELSE b

NoContent ==
  [thought |-> NoText, action |-> NoText, observation |-> NoText,
   response |-> NoText, hasToolDetails |-> FALSE]

\* convertLogEntryToStep's null
NoStep ==
  [id |-> -1, type |-> "null", timestamp |-> -1, agent_name |-> NoText,
   title |-> EmptyStr, content |-> EmptyStr, extractedContent |-> NoContent,
   level |-> Undefined, user_id |-> Undefined, request_id |-> Undefined,
   status |-> Undefined]

\* An AgentStep; id is the k of `step_${k}`.
Step(index, type, entry, agent_name, title, content, extracted, status) ==
  [id |-> index, type |-> type, timestamp |-> entry.timestamp,
   agent_name |-> agent_name, title |-> title, content |-> content,
   extractedContent |-> extracted, level |-> entry.level,
   user_id |-> entry.user_id, request_id |-> entry.request_id,
   status |-> status]

\* ------------------------------------------------------------- agent name
\* Tokens of the form "<Name> Agent <verb>" and their two parts.
AgentPart(tok) ==
  CASE tok = "Chat Agent model response:" -> "Chat Agent"
    [] tok = "Config Agent generating" -> "Config Agent"
    [] OTHER -> Undefined

AgentVerb(tok) ==
  CASE tok = "Chat Agent model response:" -> "model response:"
    [] tok = "Config Agent generating" -> "generating"
    [] OTHER -> Undefined

\* Tokens whose text is letters and white space only: [A-Za-z\s]*
AlphaSpace(tok) ==
  tok \in {" ", "\n", "plan", "hi", "error", "failed", "Failed", "Found",
           "Intelligence upgraded to level", "using CACHED system prompt",
           "Added", "Config Agent generating", "Successfully executed service tool",
           "Executing service tool", "Fetching truncated resources",
           "truncated resources", "integration script tags"}

agentVerbPatterns ==
  <<"model response:", "generating", "processing", "thought match:",
    "action match:", "observation match:", "response match:", "detected",
    "preserving", "produced", "completed">>

\* Positions where /^([A-Za-z\s]+Agent)\s+<verb>/ can end its group.
AgentMatches(m, verb) ==
  {k \in 1..Len(m) : AgentVerb(m[k]) = verb /\ \A j \in 1..(k - 1) : AlphaSpace(m[j])}

\* The first pattern of the list that matches (0: none)
FirstAgentPattern(m) ==
  FirstOr({n \in 1..Len(agentVerbPatterns) : AgentMatches(m, agentVerbPatterns[n]) # {}}, 0)

\* match[1].trim() for the (greedy) group that ends in token k
AgentNameAt(m, k) == Trim(SubSeq(m, 1, k - 1) \o <<AgentPart(m[k])>>)

extractActualAgentName(m) ==
  IF FirstAgentPattern(m) = 0 THEN NoText
  ELSE AgentNameAt(m, Max(AgentMatches(m, agentVerbPatterns[FirstAgentPattern(m)])))

\* ------------------------------------------------------------- extraction
\* /Tool:\s*([^\n]+)/ matches: parseToolDetails returns an object
ToolMatch(c) ==
  \E p \in 1..Len(c) :
     /\ "Tool:" \in Markers(c[p])
     /\ \E k \in (p + 1)..Len(c) :
          c[k] # "\n" /\ \A j \in (p + 1)..(k - 1) : IsWs(c[j])

\* The text extractAgentContent parses
AgentContentText(message) ==
  IF Includes(message, "model response:")
  THEN Trim(After(message, IndexOf(message, "model response:")))
  ELSE message

\* No thought, action or response section was found
IsBare(thought, action, response) ==
  ~Truthy(thought) /\ ~Truthy(action) /\ ~Truthy(response)

\* The standalone observation: /Observation:\s*([\s\S]*?)$/ then trim
WithStandaloneObservation(message, content, bare, observation) ==
  IF bare /\ Includes(message, "Observation:") /\ Includes(content, "Observation:")
  THEN Trim(After(content, IndexOf(content, "Observation:")))
  ELSE observation

\* A model response without sections is a response as a whole
WithWholeResponse(message, bare, observation, response) ==
  IF bare /\ ~Truthy(observation) /\ Includes(message, "model response:")
  THEN Trim(After(message, IndexOf(message, "model response:")))
  ELSE response

\* The list of available service tools becomes the observation
WithToolsObservation(content, observation) ==
  IF Includes(content, "Available service tools:") /\ ~Truthy(observation)
  THEN SubSeq(content, IndexOf(content, "Available service tools:"), Len(content))
  ELSE observation

AgentContent(message, content, thought, action, observation, response) ==
  [thought |-> thought, action |-> action,
   observation |-> WithToolsObservation(content, observation),
   response |-> WithWholeResponse(message, IsBare(thought, action, response),
                                  observation, response),
   hasToolDetails |-> Includes(content, "Tool:") /\ Includes(content, "Parameters:")
                      /\ ToolMatch(content)]

ExtractSections(message, content, thought, action, observation, response) ==
  AgentContent(message, content, thought, action,
               WithStandaloneObservation(message, content,
                                         IsBare(thought, action, response), observation),
               response)

extractAgentContent(message) ==
  ExtractSections(message, AgentContentText(message),
    SectionMatch(AgentContentText(message), "Thought:", {"Action:", "Observation:", "Response:"}),
    SectionMatch(AgentContentText(message), "Action:", {"Observation:", "Response:"}),
    SectionMatch(AgentContentText(message), "Observation:", {"Response:"}),
    SectionMatch(AgentContentText(message), "Response:", {}))

\* ------------------------------------------------------------- classifier
\* entry.message.match(/message='(.*?)',\s*history_count=/): the capture, or
\* 'Unknown request' ("." does not cross a line break).
UserMessageEnds(m, i) ==
  {j \in (i + 1)..Len(m) :
     /\ m[j] = "',"
     /\ SkipWs(m, j + 1) <= Len(m)
     /\ m[SkipWs(m, j + 1)] = "history_count="
     /\ \A x \in (i + 1)..(j - 1) : m[x] # "\n"}

UserMessageStarts(m) ==
  {i \in 1..Len(m) : m[i] = "message='" /\ UserMessageEnds(m, i) # {}}

UserMessageFrom(m, i) == SubSeq(m, i + 1, Min(UserMessageEnds(m, i)) - 1)

\* A request step that shows the whole log message
WholeMessage(m) == m

UserMessage(m) ==
  IF UserMessageStarts(m) = {} THEN <<"Unknown request">>
  ELSE UserMessageFrom(m, Min(UserMessageStarts(m)))

\* /(\w+\s+Agent)\s+added\s+(\d+)\s+relevant\s+resources\s+to\s+chat\s+context(?::\s+([\s\S]*))?/
ResourceAdditionToken == "Chat Agent added 2 relevant resources to chat context"

resourceAdditionMatch(m) == Includes(m, ResourceAdditionToken)

\* The third group of resourceAdditionMatch, or '' when it did not take part.
ResourceContentAt(m, p) ==
  IF p + 2 <= Len(m) /\ m[p + 1] = ":" /\ IsWs(m[p + 2])
  THEN SubSeq(m, SkipWs(m, p + 2), Len(m))
  ELSE EmptyStr

ResourceContent(m) == ResourceContentAt(m, IndexOf(m, ResourceAdditionToken))

\* entry.message.match(/Action\s+\d+\/\d+\s+executed/)
ActionExecutedMatch(m) == Includes(m, "Action 1/8 executed")

\* message.trim().toLowerCase().startsWith('system prompt:')
StartsWithSystemPrompt(m) ==
  Trim(m) # <<>> /\ "system prompt:" \in LowerMarkers(Trim(m)[1])

\* (typeof system_prompt === 'string' ? system_prompt : '') ||
\*   message.replace(/^System Prompt:/i, '').trim()
PromptText(entry) ==
  IF Truthy(entry.system_prompt) THEN entry.system_prompt
  ELSE IF entry.message # <<>> /\ "system prompt:" \in LowerMarkers(entry.message[1])
       THEN Trim(Tail(entry.message)) ELSE Trim(entry.message)

shouldInclude(entry) ==
  LET m == entry.message
  IN \/ Includes(m, "model response:")
     \/ Includes(m, "Associated Resources:")
     \/ IncludesSeq(m, <<"Observation:", " ", "Observation:", " ", "Available service tools:">>)
     \/ Includes(m, "[Memory Resources]")
     \/ Includes(m, "Executing service tool")
     \/ Includes(m, "Successfully executed service tool")
     \/ (Includes(m, "Tool:") /\ Includes(m, "Parameters:"))
     \/ ActionExecutedMatch(m)
     \/ Includes(m, "Fetching truncated resources")
     \/ (Includes(m, "Found") /\ Includes(m, "truncated resources"))
     \/ (Includes(m, "Added") /\ Includes(m, "integration script tags"))
     \/ entry.level = "ERROR"
     \/ LowerIncludes(m, "failed")
     \/ LowerIncludes(m, "error")

infrastructurePatterns ==
  {"=== Authentication successful ===", "Received chat request:",
   "Processing chat request -", "Successfully processed chat response",
   "Request completed:", "Settings updated:", "Integration in progress:",
   "Using user's preferred model:", "User search config:",
   "Initialized AnthropicProvider", "Generated response from AnthropicProvider",
   "Agent initialized with system prompt", "Starting query processing",
   "Query completed successfully", "Agent produced observation",
   "Agent produced final response", "processing actions from response",
   "generating model response with", "Adding observation to messages:",
   "generated response from", "Generated response from",
   "Action 1/", "Action 2/", "Action 3/", "Action 4/", "Action 5/",
   "Action 6/", "Action 7/", "Action 8/",
   "thought match:", "action match:", "observation match:", "response match:",
   "processing mid-process response", "processing final response"}

nonAgentLoggers == {"app.auth", "app.endpoints.chat", "app.main"}

\* A suppression list that does not look at shouldInclude
SuppressedByPatternOnly(entry) ==
  \/ \E pattern \in infrastructurePatterns : Includes(entry.message, pattern)
  \/ entry.logger \in nonAgentLoggers

\* A suppression list that is tried before the importance test
SuppressedFirst(entry) ==
  \/ \E pattern \in infrastructurePatterns : Includes(entry.message, pattern)
  \/ (entry.logger \in nonAgentLoggers /\ entry.level # "ERROR")

\* The suppression list: a record that is not "important" and is routine.
Suppressed(entry) ==
  /\ ~shouldInclude(entry)
  /\ \/ \E pattern \in infrastructurePatterns : Includes(entry.message, pattern)
     \/ (entry.logger \in nonAgentLoggers /\ entry.level # "ERROR")

\* The if / else-if chain that picks the step type ("null": the final filter).
StepType(entry) ==
  LET m == entry.message
  IN IF Includes(m, "model response:") THEN "agent_response"
     ELSE IF \/ entry.action = "fetch_service_resources"
             \/ Includes(m, "Fetching truncated resources")
             \/ (Includes(m, "Found") /\ Includes(m, "truncated resources"))
             \/ (Includes(m, "Added") /\ Includes(m, "integration script tags"))
          THEN "resource_retrieval"
     ELSE IF \/ entry.action = "service_tool_call"
             \/ Includes(m, "Executing service tool")
             \/ Includes(m, "Successfully executed service tool")
          THEN "tool_execution"
     ELSE IF ActionExecutedMatch(m) THEN "agent_response"
     ELSE IF /\ Includes(m, "Observation:")
             /\ \/ Includes(m, "Associated Resources:")
                \/ Includes(m, "Available service tools:")
                \/ Includes(m, "[Memory Resources]")
                \/ Includes(m, "SMS sent successfully")
          THEN "agent_response"
     ELSE IF Includes(m, "Tool:") /\ Includes(m, "Parameters:") THEN "tool_execution"
     ELSE IF \/ entry.level = "ERROR"
             \/ IncludesSeq(m, <<"Observation:", " ", "Error:">>)
             \/ LowerIncludes(m, "failed")
             \/ LowerIncludes(m, "error")
          THEN "error"
     ELSE "null"

\* The title of a step of the chain.
StepTitle(entry, stepType, displayAgentName) ==
  IF Includes(entry.message, "model response:")
  THEN IF \/ Includes(entry.message, "Thought:") \/ Includes(entry.message, "Action:")
          \/ Includes(entry.message, "Observation:") \/ Includes(entry.message, "Response:")
       THEN displayAgentName \o <<" Reasoning">>
       ELSE displayAgentName \o <<" Response">>
  ELSE IF stepType = "resource_retrieval"
       THEN displayAgentName \o <<" Resource Retrieval">>
  ELSE IF \/ entry.action = "service_tool_call"
          \/ Includes(entry.message, "Executing service tool")
          \/ Includes(entry.message, "Successfully executed service tool")
       THEN displayAgentName \o <<" Tool Execution">>
  ELSE IF ActionExecutedMatch(entry.message) THEN displayAgentName \o <<" Action Progress">>
  ELSE IF stepType = "agent_response" THEN <<"Observation">>
  ELSE IF stepType = "tool_execution" THEN <<"Tool Details">>
  ELSE <<"Error Occurred">>

StatusOf(entry) == IF entry.level = "ERROR" THEN "error" ELSE "success"

\* extractedContent after the override for resource and tool steps
ExtractedFor(stepType, m, extracted) ==
  IF stepType = "resource_retrieval" THEN [thought |-> NoText, action |-> m]
  ELSE IF stepType = "tool_execution" /\ ~extracted.hasToolDetails
       THEN [thought |-> NoText, action |-> m]
  ELSE extracted

\* The step object built at the end of convertLogEntryToStep
ChainStep(entry, index, stepType, actualAgentName) ==
  IF stepType = "null" THEN NoStep
  ELSE Step(index, stepType, entry, OrElse(actualAgentName, entry.agent_name),
            StepTitle(entry, stepType,
                      OrElse(OrElse(actualAgentName, entry.agent_name), <<"Agent">>)),
            entry.message,
            ExtractedFor(stepType, entry.message, extractAgentContent(entry.message)),
            StatusOf(entry))

\* A chain that names the step after the record's agent_name field only
GeneralStepByField(entry, index) ==
  ChainStep(entry, index, StepType(entry), NoText)

\* The steps after the suppression list (NOW classify the meaningful agent steps).
GeneralStep(entry, index) ==
  ChainStep(entry, index, StepType(entry), extractActualAgentName(entry.message))

\* '<name> Integration Started' / '<name> Intelligence Upgrade' steps
IntelligenceStep(entry, index, name, suffix) ==
  Step(index, "intelligence_change", entry, name, name \o suffix, entry.message,
       [thought |-> NoText], "success")

\* ---- the payload of 'Adding observation to messages:' records
ObservationPrefix == "Adding observation to messages:"

\* Payload tokens: JSON texts, and the head of an object that is cut off
StatusPayload == "{\"status\":\"success\",\"message\":\"done\"}"
ResultsPayload == "{\"status\":\"success\",\"message\":\"done\",\"results\":[1]}"
ObjectPayload == "{\"a\":1}"
TitlesPayload == "[{\"title\":\"t\"}]"
NullsPayload == "[null]"
EmptyArrayPayload == "[]"
BrokenPayload == "{\"status\":"
TitleObject == "{\"title\":\"t\"}"

\* The brackets and braces of a token's text, in order
Brackets(tok) ==
  CASE tok \in {StatusPayload, ObjectPayload} -> <<"{", "}">>
    [] tok = ResultsPayload -> <<"{", "[", "]", "}">>
    [] tok = TitlesPayload -> <<"[", "{", "}", "]">>
    [] tok \in {NullsPayload, EmptyArrayPayload} -> <<"[", "]">>
    [] tok = BrokenPayload -> <<"{">>
    [] OTHER -> <<>>

\* The places of the brackets of text c: <<token, bracket of the token>>
BracketPlaces(c) == UNION {{<<i, k>> : k \in DOMAIN Brackets(c[i])} : i \in DOMAIN c}

BracketAt(c, e) == Brackets(c[e[1]])[e[2]]

Precedes(e, f) == e[1] < f[1] \/ (e[1] = f[1] /\ e[2] < f[2])

Closing(open) == IF open = "[" THEN "]" ELSE "}"

\* The places of the character ch in c
PlacesOf(c, ch) == {e \in BracketPlaces(c) : BracketAt(c, e) = ch}

FirstPlace(S) == CHOOSE e \in S : \A f \in S : f = e \/ Precedes(e, f)
LastPlace(S) == CHOOSE e \in S : \A f \in S : f = e \/ Precedes(f, e)

\* JSON.parse of the text of c from place a to place b: the value, named by
\* its text, or "invalid" when JSON.parse throws.  A text that runs over
\* several tokens is never a JSON value: what follows the first token's
\* own closing character is left over, and a cut-off object is never closed.
JsonValue(c, a, b) ==
  IF a[1] # b[1] THEN "invalid"
  ELSE IF a[2] = 1 /\ b[2] = Len(Brackets(c[a[1]])) THEN c[a[1]]
  ELSE IF c[a[1]] = TitlesPayload /\ a[2] = 2 /\ b[2] = 3 THEN TitleObject
  ELSE "invalid"

\* Where /(\[[\s\S]*\]|\{[\s\S]*\})/ can start: an opening character with
\* its closing character somewhere after it
JsonMatchStarts(c) ==
  {e \in BracketPlaces(c) :
     /\ BracketAt(c, e) \in {"[", "{"}
     /\ \E f \in PlacesOf(c, Closing(BracketAt(c, e))) : Precedes(e, f)}

\* The greedy match that starts at place a ends at the last closing character
JsonMatchValue(c, a) == JsonValue(c, a, LastPlace(PlacesOf(c, Closing(BracketAt(c, a)))))

\* parsedObservation of the new classifier ("none": the pattern finds no match)
ParsedObservation(c) ==
  IF JsonMatchStarts(c) = {} THEN "none" ELSE JsonMatchValue(c, FirstPlace(JsonMatchStarts(c)))

\* observationContent.replace(/^Observation:\s*/, '')
StripObservationLabel(c) ==
  IF c # <<>> /\ c[1] = "Observation:" THEN TrimStart(Tail(c)) ELSE c

\* cleanContent: the text after the prefix, trimmed, without the label
CleanContent(m) == StripObservationLabel(Trim(After(m, IndexOf(m, ObservationPrefix))))

\* observationText for the parsed value v; the text stays cleanContent when
\* nothing is parsed, and when Object.keys(null) throws for [null]
ObservationText(v, cleanContent) ==
  CASE v \in {StatusPayload, ResultsPayload} -> <<"Status: success\nMessage: done">>
    [] v = TitlesPayload -> <<"Retrieved 1 items\nFirst item: \"t\"">>
    [] v = EmptyArrayPayload -> <<"Empty result set">>
    [] v = ObjectPayload -> <<"Data object with 1 fields\nFields: a">>
    [] v = TitleObject -> <<"Data object with 1 fields\nFields: title">>
    [] OTHER -> cleanContent

\* structuredData || undefined
StructuredData(v) ==
  CASE v = ResultsPayload -> "{results:[1]}"
    [] v = TitlesPayload -> "{results:[{title:t}]}"
    [] v = EmptyArrayPayload -> "{results:[]}"
    [] v = ObjectPayload -> "{results:[{a:1}]}"
    [] v = TitleObject -> "{results:[{title:t}]}"
    [] OTHER -> Undefined

ObservationContent(cleanContent) ==
  [thought |-> NoText,
   observation |-> ObservationText(ParsedObservation(cleanContent), cleanContent),
   observationData |-> StructuredData(ParsedObservation(cleanContent))]

\* The step for 'Adding observation to messages:'
ObservationStep(entry, index, actual) ==
  Step(index, "agent_response", entry, actual,
       OrElse(actual, <<"Agent">>) \o <<" Observation">>, entry.message,
       ObservationContent(CleanContent(entry.message)), "success")

\* ---- the same record in convertLogEntryToStep of hooks/useAgentFlowParser.ts,
\* whose first branch it is
\* The value of message.substring(jsonStart, jsonEnd + 1), jsonStart the
\* first '{' and jsonEnd the last '}' ("none": the guard fails)
HookObservationValue(m) ==
  IF \/ PlacesOf(m, "{") = {}
     \/ PlacesOf(m, "}") = {}
     \/ ~Precedes(FirstPlace(PlacesOf(m, "{")), LastPlace(PlacesOf(m, "}")))
  THEN "none"
  ELSE JsonValue(m, FirstPlace(PlacesOf(m, "{")), LastPlace(PlacesOf(m, "}")))

\* The step built from the parsed observationData v
HookParsedStep(entry, index, v, actual) ==
  Step(index, "agent_response", entry, actual,
       OrElse(actual, <<"Agent">>) \o <<" Observation">>, entry.message,
       [thought |-> NoText,
        observation |-> IF v \in {StatusPayload, ResultsPayload}
                        THEN <<"Status: success\nMessage: done">>
                        ELSE <<"Status: undefined\nMessage: undefined">>,
        observationData |-> IF v = ResultsPayload THEN "{results:[1]}" ELSE Undefined],
       IF v \in {StatusPayload, ResultsPayload} THEN "success" ELSE "error")

\* No JSON found, or JSON.parse throws: return null
HookStepOf(entry, index, v) ==
  IF v \in {"none", "invalid"} THEN NoStep
  ELSE HookParsedStep(entry, index, v,
                      OrElse(extractActualAgentName(entry.message), entry.agent_name))

HookObservationStep(entry, index) == HookStepOf(entry, index, HookObservationValue(entry.message))

\* The step for a system prompt record
SystemPromptStep(entry, index, actual) ==
  Step(index, "system_prompt", entry, actual,
       OrElse(actual, <<"Agent">>) \o <<" System Prompt">>,
       PromptText(entry),
       [thought |-> NoText, response |-> PromptText(entry)],
       StatusOf(entry))

convertLogEntryToStep(entry, index) ==
  IF Includes(entry.message, "Received chat request:")
  THEN Step(index, "initial_request", entry, <<"User">>, <<"Initial Request">>,
            UserMessage(entry.message),
            [thought |-> NoText, response |-> UserMessage(entry.message)],
            "success")
  ELSE IF Includes(entry.message, "Integration in progress. Now using model:")
  THEN IntelligenceStep(entry, index, OrElse(entry.agent_name, <<"Integrations Agent">>),
                        <<" Integration Started">>)
  ELSE IF Includes(entry.message, "Intelligence upgraded to level")
  THEN IntelligenceStep(entry, index, OrElse(entry.agent_name, <<"Agent">>),
                        <<" Intelligence Upgrade">>)
  ELSE IF Includes(entry.message, "Adding observation to messages:")
  THEN ObservationStep(entry, index,
                       OrElse(extractActualAgentName(entry.message), entry.agent_name))
  ELSE IF resourceAdditionMatch(entry.message)
  THEN Step(index, "resource_retrieval", entry, <<"Chat Agent">>,
            <<"Injected Resources">>,
            IF ResourceContent(entry.message) # EmptyStr
            THEN <<"Added 2 relevant resources to chat context:", "\n">>
                 \o ResourceContent(entry.message)
            ELSE <<"Added 2 relevant resources to chat context">>,
            [thought |-> NoText, action |-> entry.message], "success")
  ELSE IF \/ Includes(entry.message, "using standard (uncached) system prompt")
          \/ Includes(entry.message, "using CACHED system prompt")
  THEN NoStep
  ELSE IF Truthy(entry.system_prompt) \/ StartsWithSystemPrompt(entry.message)
  THEN SystemPromptStep(entry, index,
                        OrElse(extractActualAgentName(entry.message), entry.agent_name))
  ELSE IF Suppressed(entry) THEN NoStep
  ELSE GeneralStep(entry, index)

\* A counter that takes every step for a thought
isAnyStep(step) == TRUE

\* step.content?.includes('Thought:') || thought.trim().length > 0
isThoughtStep(step) ==
  \/ Includes(step.content, "Thought:")
  \/ (Truthy(step.extractedContent.thought) /\ Trim(step.extractedContent.thought) # EmptyStr)


\* ------------------------------------------------------------- grouper
IsStartMarker(entry) ==
  \/ Includes(entry.message, "Received chat request:")
  \/ entry.message = <<"=== TEST SESSION START ===">>

IsEndMarker(entry) ==
  \/ Includes(entry.message, "Request completed:")
  \/ entry.message = <<"=== TEST SESSION END ===">>

\* A slice that ignores where the window opened
EntriesFromFirst(logEntries, startIndex, i) == SubSeq(logEntries, 1, i + 1)

\* logEntries.slice(startIndex, i + 1), indices counted from 0 as in the code
RequestEntries(logEntries, startIndex, i) == SubSeq(logEntries, startIndex + 1, i + 1)

\* A loop that leaves the window open after the push
KeepStartIndex(startIndex) == startIndex

\* startIndex after a request has been pushed
ResetStartIndex(startIndex) == -1

\* An atomic string field is truthy unless absent or ''.
TruthyId(x) == x # Undefined /\ x # ""

\* The first truthy user_id of the window, else 'unknown_user'
WindowUserId(requestEntries) ==
  IF \E k \in 1..Len(requestEntries) : TruthyId(requestEntries[k].user_id)
  THEN requestEntries[CHOOSE k \in 1..Len(requestEntries) :
         /\ TruthyId(requestEntries[k].user_id)
         /\ \A j \in 1..(k - 1) : ~TruthyId(requestEntries[j].user_id)].user_id
  ELSE "unknown_user"

\* The first truthy request_id of the window, else ''
WindowRequestId(requestEntries) ==
  IF \E k \in 1..Len(requestEntries) : TruthyId(requestEntries[k].request_id)
  THEN requestEntries[CHOOSE k \in 1..Len(requestEntries) :
         /\ TruthyId(requestEntries[k].request_id)
         /\ \A j \in 1..(k - 1) : ~TruthyId(requestEntries[j].request_id)].request_id
  ELSE ""

\* requestId ? `${userId}_${requestId}` : userId
RequestKey(userId, requestId) ==
  IF requestId # "" THEN <<userId, "_", requestId>> ELSE <<userId>>

\* A summary that counts errors by level only
CountsErrorLevelOnly(requestEntry) == requestEntry.level = "ERROR"

\* The error test of the summary
CountsAsError(requestEntry) ==
  \/ requestEntry.level = "ERROR"
  \/ IncludesSeq(requestEntry.message, <<"Observation:", " ", "Error:">>)
  \/ Includes(requestEntry.message, "Error:")

\* The summary after a step made from requestEntry has been pushed
UpdateSummary(sm, step, requestEntry) ==
  [total_steps |-> sm.total_steps + (IF isThoughtStep(step) THEN 1 ELSE 0),
   agents_involved |->
     IF Truthy(step.agent_name)
        /\ \A a \in 1..Len(sm.agents_involved) : sm.agents_involved[a] # step.agent_name
     THEN Append(sm.agents_involved, step.agent_name)
     ELSE sm.agents_involved,
   resources_retrieved |->
     sm.resources_retrieved + (IF step.type = "resource_retrieval" THEN 1 ELSE 0),
   errors |-> sm.errors + (IF CountsAsError(requestEntry) THEN 1 ELSE 0)]

\* request.steps.push(step) and the summary update
PushStep(request, step, requestEntry) ==
  [request EXCEPT !.steps = Append(@, step),
                  !.summary = UpdateSummary(@, step, requestEntry)]

\* One turn of requestEntries.forEach: the request after entry `index`
\* A loop that pushes whatever the classifier returned, null included
PushAlways(request, step, requestEntry) == PushStep(request, step, requestEntry)

\* if (step) { ... }
PushIfStep(request, step, requestEntry) ==
  IF step = NoStep THEN request ELSE PushStep(request, step, requestEntry)

\* A loop that numbers a step by its place among the steps pushed so far
AddStepByCount(request, requestEntry, index) ==
  PushIfStep(request, convertLogEntryToStep(requestEntry, Len(request.steps)),
             requestEntry)

AddStep(request, requestEntry, index) ==
  PushIfStep(request, convertLogEntryToStep(requestEntry, index), requestEntry)

RECURSIVE ForEachEntry(_, _, _)
ForEachEntry(request, requestEntries, index) ==
  IF index >= Len(requestEntries) THEN request
  ELSE ForEachEntry(AddStep(request, requestEntries[index + 1], index),
                    requestEntries, index + 1)

\* A request object that takes both times from the window's first record
RequestTimedAtStart(requestEntries, userId, requestId) ==
  [id |-> RequestKey(userId, requestId),
   user_id |-> userId,
   request_id |-> requestId,
   start_time |-> requestEntries[1].timestamp,
   end_time |-> requestEntries[1].timestamp,
   steps |-> <<>>,
   entries |-> requestEntries,
   summary |-> [total_steps |-> 0, agents_involved |-> <<>>,
                resources_retrieved |-> 0, errors |-> 0]]

\* The AgentRequest object before the forEach
NewRequest(requestEntries, userId, requestId) ==
  [id |-> RequestKey(userId, requestId),
   user_id |-> userId,
   request_id |-> requestId,
   start_time |-> requestEntries[1].timestamp,
   end_time |-> requestEntries[Len(requestEntries)].timestamp,
   steps |-> <<>>,
   entries |-> requestEntries,
   summary |-> [total_steps |-> 0, agents_involved |-> <<>>,
                resources_retrieved |-> 0, errors |-> 0]]

\* The AgentRequest built for one window
BuildRequest(requestEntries) ==
  ForEachEntry(NewRequest(requestEntries, WindowUserId(requestEntries),
                          WindowRequestId(requestEntries)),
               requestEntries, 0)

Returned(value) == [threw |-> FALSE, value |-> value]
Threw == [threw |-> TRUE, value |-> <<>>]

\* The for loop of parseAgentRequests from index i on.  Reading .includes of
\* a missing message throws a TypeError out of the function.
RECURSIVE ParseLoop(_, _, _, _)
ParseStep(logEntries, i, start, acc) ==
  IF start # -1 /\ IsEndMarker(logEntries[i + 1])
  THEN ParseLoop(logEntries, i + 1, ResetStartIndex(start),
                 Append(acc, BuildRequest(RequestEntries(logEntries, start, i))))
  ELSE ParseLoop(logEntries, i + 1, start, acc)

ParseLoop(logEntries, i, startIndex, acc) ==
  IF i >= Len(logEntries) THEN Returned(acc)
  ELSE IF ~HasMessage(logEntries[i + 1]) THEN Threw
  ELSE ParseStep(logEntries, i, IF IsStartMarker(logEntries[i + 1]) THEN i ELSE startIndex, acc)

parseAgentRequests(logEntries) == ParseLoop(logEntries, 0, -1, <<>>)


\* ------------------------------------------------------------- lines
\* A blob is a sequence of lines (the text split on '\n'); NoData is the
\* null or empty logData.  A line is named by its kind; the line at position n
\* carries timestamp n.
NoData == <<>>

\* Lines of an agent log (newline-delimited records).
FlowLines ==
  {"start_hi", "completed_r1", "completed_r2", "session_start", "session_end",
   "thought", "midthought", "error_u2", "error_text", "settings", "bad", "nomsg",
   "blank"}

\* Lines of the other blob shapes: JSON arrays on one line or spread over
\* several, and plain text.
LogLines ==
  {"entry", "entry_comma", "msg", "bad", "text", "blank", "open", "close",
   "array_typed", "array_conv", "array_empty", "array_null"}

\* The lines of a message array: "[", "]", messages a and b of conversation
\* c1 and c of conversation c2, alone on the line or followed by a comma,
\* a line that is no JSON, a one-line array of typed records, the line [null]
ConvLines ==
  {"open", "close", "a", "a_comma", "b_comma", "c_comma", "bad",
   "array_typed", "array_null"}

\* The lines that are an object followed by a comma
CommaLines == {"entry_comma", "a_comma", "b_comma", "c_comma"}

\* line.trim() is empty
LineBlank(kind) == kind = "blank"

\* The first and last character of line.trim()
FirstChar(kind) ==
  CASE kind \in {"open", "array_typed", "array_conv", "array_empty", "array_null"} -> "["
    [] kind \in {"text", "blank"} -> "x"
    [] kind = "close" -> "]"
    [] OTHER -> "{"

LastChar(kind) ==
  CASE kind \in {"close", "array_typed", "array_conv", "array_empty", "array_null"} -> "]"
    [] kind \in CommaLines -> ","
    [] kind \in {"text", "blank", "bad"} -> "x"
    [] kind = "open" -> "["
    [] OTHER -> "}"

\* JSON.parse(line) returns
LineParses(kind) == kind \notin {"bad", "text", "blank", "open", "close"} \cup CommaLines

\* The message texts of the agent-log lines
LineMessage(kind) ==
  CASE kind = "start_hi" ->
         <<"Received chat request:", " ", "message='", "hi", "',", " ", "history_count=", "0">>
    [] kind \in {"completed_r1", "completed_r2"} -> <<"Request completed:", " ", "ok">>
    [] kind = "session_start" -> <<"=== TEST SESSION START ===">>
    [] kind = "session_end" -> <<"=== TEST SESSION END ===">>
    [] kind = "thought" -> <<"Chat Agent model response:", " ", "Thought:", " ", "plan">>
    [] kind = "midthought" -> <<"Chat Agent model response:", " ", "plan", " ", "Thought:">>
    [] kind = "error_u2" -> <<"boom">>
    [] kind = "error_text" -> <<"Error:", " ", "plan">>
    [] kind = "settings" -> <<"Settings updated:", " ", "plan">>
    [] kind = "entry" -> <<"Starting query processing">>
    [] OTHER -> NoText

\* The value JSON.parse(line) returns for the line of this kind at position n
LineValue(kind, n) ==
  CASE kind = "start_hi" ->
         Entry(LineMessage(kind), "INFO", "app.endpoints.chat", "U1", "R1", NoText, NoText, Undefined, n)
    [] kind = "completed_r1" ->
         Entry(LineMessage(kind), "INFO", "app.endpoints.chat", Undefined, "R1", NoText, NoText, Undefined, n)
    [] kind = "completed_r2" ->
         Entry(LineMessage(kind), "INFO", "app.endpoints.chat", "U2", "R2", NoText, NoText, Undefined, n)
    [] kind \in {"session_start", "session_end"} ->
         Entry(LineMessage(kind), "INFO", "app.tests", Undefined, Undefined,
               NoText, NoText, Undefined, n)
    [] kind \in {"thought", "midthought"} ->
         Entry(LineMessage(kind), "INFO", "app.agents.base_agent", "U1", "R1",
               <<"Integrations Agent">>, NoText, Undefined, n)
    [] kind = "error_text" ->
         Entry(LineMessage(kind), "INFO", "app.agents.base_agent", "U1", "R1",
               NoText, NoText, Undefined, n)
    [] kind = "error_u2" ->
         Entry(LineMessage(kind), "ERROR", "app.agents.base_agent", "U2", "R2",
               NoText, NoText, Undefined, n)
    [] kind = "settings" ->
         Entry(LineMessage(kind), "INFO", "app.main", "U1", "R1", NoText, NoText, Undefined, n)
    [] kind = "entry" ->
         Entry(LineMessage(kind), "INFO", "app.agents.base_agent", "U1", "R1",
               NoText, NoText, Undefined, n)
    [] kind = "nomsg" ->
         Entry(NoText, "INFO", "app.main", Undefined, Undefined, NoText, NoText, Undefined, n)
    [] kind = "msg" ->
         [conversation_id |-> "c1", role |-> "user", content |-> <<"hi">>, created_at |-> n]
    [] OTHER -> [array |-> kind]

RECURSIVE ParseLinesLoop(_, _, _)
\* A catch block that gives up on the rest of the blob
AfterBadLineAbort(data, n, acc) == acc

\* What happens to the record list when JSON.parse(line) throws: the catch
\* block warns and the loop goes on.
AfterBadLine(data, n, acc) == ParseLinesLoop(data, n + 1, acc)

\* lines = data.split('\n').filter(line => line.trim()); for each line:
\* try { push(JSON.parse(line)) } catch { warn }
ParseLinesLoop(data, n, acc) ==
  IF n > Len(data) THEN acc
  ELSE IF LineBlank(data[n]) THEN ParseLinesLoop(data, n + 1, acc)
  ELSE IF LineParses(data[n])
       THEN ParseLinesLoop(data, n + 1, Append(acc, LineValue(data[n], n)))
       ELSE AfterBadLine(data, n, acc)

ParseLines(data) == ParseLinesLoop(data, 1, <<>>)

\* ------------------------------------------------------------- useAgentFlowParser
NoError == "null"
TypeErrorMessage == "Cannot read properties of undefined (reading 'includes')"

\* The try / catch / finally of the effect, parsed what parseAgentRequests did
FlowResult(prev, parsed) ==
  IF parsed.threw
  THEN [requests |-> prev.requests, isLoading |-> FALSE, error |-> TypeErrorMessage]
  ELSE [requests |-> parsed.value, isLoading |-> FALSE, error |-> NoError]

\* The hook's state after its effect ran for logData = data, from state prev.
FlowEffect(prev, data) ==
  IF data = NoData
  THEN [prev EXCEPT !.requests = <<>>]
  ELSE FlowResult(prev, parseAgentRequests(ParseLines(data)))

FlowInit == [requests |-> <<>>, isLoading |-> FALSE, error |-> NoError]

useAgentFlowParserEffect(data) ==
  \E nxt \in {FlowEffect([requests |-> requests, isLoading |-> isLoading,
                          error |-> error], data)} :
     /\ requests' = nxt.requests
     /\ isLoading' = nxt.isLoading
     /\ error' = nxt.error

\* ------------------------------------------------------------- useLogParser
\* The non-blank lines of the blob
RECURSIVE NonBlank(_)
NonBlank(data) ==
  IF data = <<>> THEN <<>>
  ELSE IF LineBlank(Head(data)) THEN NonBlank(Tail(data))
  ELSE <<Head(data)>> \o NonBlank(Tail(data))

\* Number of leading lines that are an object followed by a comma
RECURSIVE LeadingCommas(_)
LeadingCommas(e) ==
  IF e # <<>> /\ Head(e) \in CommaLines THEN 1 + LeadingCommas(Tail(e)) ELSE 0

\* The non-blank lines v spell one JSON value: a line that is a complete
\* value, or "[" elements "]" with the elements separated by commas.
RECURSIVE IsJsonValue(_)
IsElementList(e) ==
  e = <<>> \/ IsJsonValue(SubSeq(e, LeadingCommas(e) + 1, Len(e)))

IsJsonValue(v) ==
  \/ Len(v) = 1 /\ LineParses(v[1])
  \/ /\ Len(v) >= 2
     /\ v[1] = "open"
     /\ v[Len(v)] = "close"
     /\ IsElementList(SubSeq(v, 2, Len(v) - 1))

\* What an element of the parsed array is
ItemOf(v) ==
  IF Len(v) = 1 /\ v[1] \in {"entry", "start_hi", "completed_r1", "completed_r2", "session_start",
                             "session_end", "thought", "midthought", "error_u2", "error_text",
                             "settings", "nomsg"}
  THEN "object"
  ELSE IF Len(v) = 1 /\ v[1] = "msg" THEN "message"
  ELSE "array"

\* The elements of the bracketed lines e, k of them objects followed by commas
ElementItems(e, k) ==
  IF e = <<>> THEN <<>>
  ELSE [i \in 1..(k + 1) |->
          IF i <= k THEN "object" ELSE ItemOf(SubSeq(e, k + 1, Len(e)))]

\* The elements of the array JSON.parse(trimmed) returns, v a JSON array
ArrayItems(v) ==
  IF Len(v) = 1
  THEN CASE v[1] = "array_typed" -> <<"object">>
         [] v[1] = "array_conv" -> <<"message">>
         [] v[1] = "array_null" -> <<"null">>
         [] OTHER -> <<>>
  ELSE ElementItems(SubSeq(v, 2, Len(v) - 1), LeadingCommas(SubSeq(v, 2, Len(v) - 1)))

\* An array branch that never looks at the first element
AnyItemsTyped(items) == IF items = <<>> THEN "none" ELSE "json-array"

\* What the array branch makes of the parsed array
FormatOfItems(items) ==
  IF items = <<>> \/ items[1] = "null" THEN "none"
  ELSE IF items[1] = "message" THEN "conversation"
  ELSE "json-array"

\* The array branch of detectDataFormat: 'conversation', 'json-array', or
\* "none" when it falls through (no array, an empty one, or a TypeError on a
\* null first item, caught).
ArrayFormat(v) ==
  IF v # <<>> /\ FirstChar(v[1]) = "[" /\ LastChar(v[Len(v)]) = "]" /\ IsJsonValue(v)
  THEN FormatOfItems(ArrayItems(v))
  ELSE "none"

\* A detector that takes every blob for NDJSON
AlwaysNdjson(lines) == "ndjson"

\* The NDJSON branch: every non-blank line starts with '{'
LinesFormat(lines) ==
  IF Len(lines) > 0 /\ \A i \in 1..Len(lines) : FirstChar(lines[i]) = "{"
  THEN "ndjson"
  ELSE "unknown"

detectDataFormat(data) ==
  IF ArrayFormat(NonBlank(data)) # "none" THEN ArrayFormat(NonBlank(data))
  ELSE LinesFormat(NonBlank(data))

NoMessage == [text |-> "null", count |-> 0]
FormatMessage(text, count) == [text |-> text, count |-> count]

\* The switch on the detected format
LogResult(format, parsedEntries) ==
  [entries |-> IF format = "ndjson" THEN parsedEntries ELSE <<>>,
   isLoading |-> FALSE,
   error |-> NoError,
   dataFormat |-> format,
   formatMessage |->
     CASE format = "json-array" ->
            FormatMessage("This file contains agent flow data. Please use the \"Agent Flow\" tab to view this content.", 0)
       [] format = "conversation" ->
            FormatMessage("This file contains conversation data. Please use the \"Conversations\" tab to view this content.", 0)
       [] format = "ndjson" ->
            FormatMessage("Successfully loaded ${parsedEntries.length} log entries.", Len(parsedEntries))
       [] OTHER ->
            FormatMessage("Unsupported data format. Expected NDJSON logs or agent flow JSON arrays.", 0)]

\* The hook's state after its effect ran for logData = data, from state prev.
LogEffect(prev, data) ==
  IF data = NoData
  THEN [prev EXCEPT !.entries = <<>>, !.dataFormat = "null", !.formatMessage = NoMessage]
  ELSE LogResult(detectDataFormat(data), ParseLines(data))

useLogParserEffect(data) ==
  \E nxt \in {LogEffect([entries |-> entries, isLoading |-> lpIsLoading, error |-> lpError,
                         dataFormat |-> dataFormat, formatMessage |-> formatMessage], data)} :
     /\ entries' = nxt.entries
     /\ lpIsLoading' = nxt.isLoading
     /\ lpError' = nxt.error
     /\ dataFormat' = nxt.dataFormat
     /\ formatMessage' = nxt.formatMessage

\* ------------------------------------------------------------- useConversationParser
\* A parsed array element as the hook reads it.  created_at is a time; 0
\* stands for an absent created_at, whose Date is invalid (getTime() is NaN).
Message(conversation_id, created_at, user_id, n) ==
  [conversation_id |-> conversation_id, created_at |-> created_at,
   user_id |-> user_id, id |-> n]

\* The element the line of this kind at position n spells; an element that
\* is itself an array has none of the message fields.
ConvElement(kind, n) ==
  CASE kind \in {"a", "a_comma"} -> Message("c1", 3, "u1", n)
    [] kind = "b_comma" -> Message("c1", 1, "u2", n)
    [] kind = "c_comma" -> Message("c2", 2, Undefined, n)
    [] OTHER -> Message(Undefined, 0, Undefined, n)

\* The elements of the bracketed lines e, k of them followed by commas
ConvElementsOf(e, k) ==
  IF e = <<>> THEN <<>>
  ELSE [i \in 1..(k + 1) |->
          IF i <= k \/ Len(e) = k + 1 THEN ConvElement(e[i], i + 1)
          ELSE Message(Undefined, 0, Undefined, i + 1)]

\* messages = JSON.parse(logData), v the non-blank lines of a JSON array
\* without a null element
ParsedMessages(v) ==
  IF Len(v) = 1
  THEN IF v[1] = "array_typed" THEN <<Message(Undefined, 0, "U1", 1)>> ELSE <<>>
  ELSE ConvElementsOf(SubSeq(v, 2, Len(v) - 1), LeadingCommas(SubSeq(v, 2, Len(v) - 1)))

\* new Date(a).getTime() - new Date(b).getTime(); a NaN difference counts
\* as 0 in Array.prototype.sort
TimeDifference(a, b) == IF a = 0 \/ b = 0 THEN 0 ELSE a - b

\* The position Array.prototype.sort (a stable sort) gives element i of the
\* list whose comparator values are cmp[i][j]
SortedPosition(cmp, i) ==
  1 + Cardinality({j \in DOMAIN cmp : cmp[j][i] < 0 \/ (cmp[j][i] = 0 /\ j < i)})

\* The comparator orders the elements consistently: equivalence under it is
\* transitive.  Otherwise the sort order is implementation-defined.
Consistent(cmp) ==
  \A i, j, k \in DOMAIN cmp : cmp[i][j] = 0 /\ cmp[j][k] = 0 => cmp[i][k] = 0

\* The lists list.sort(comparator) can leave
Rearrangements(list) ==
  {[r \in DOMAIN list |-> list[p[r]]] :
     p \in {q \in [DOMAIN list -> DOMAIN list] : \A x, y \in DOMAIN list : q[x] = q[y] => x = y}}

StableSorted(list, cmp) ==
  [r \in DOMAIN list |-> list[CHOOSE i \in DOMAIN list : SortedPosition(cmp, i) = r]]

SortOutcomes(list, cmp) ==
  IF Consistent(cmp) THEN {StableSorted(list, cmp)} ELSE Rearrangements(list)

\* messages.sort((a, b) => new Date(a.created_at) - new Date(b.created_at)).
\* The elements that share a conversation_id all carry a created_at or all
\* lack one, so this comparator is consistent.
ByCreatedAt(ms) ==
  [i \in DOMAIN ms |-> [j \in DOMAIN ms |-> TimeDifference(ms[i].created_at, ms[j].created_at)]]

SortedMessages(ms) == StableSorted(ms, ByCreatedAt(ms))

\* One Conversation object from the sorted messages of a conversation
ConversationOf(conversationId, sortedMessages) ==
  [id |-> conversationId,
   messages |-> sortedMessages,
   user_id |-> IF sortedMessages[1].user_id # Undefined THEN sortedMessages[1].user_id
               ELSE "unknown",
   start_time |-> sortedMessages[1].created_at,
   end_time |-> sortedMessages[Len(sortedMessages)].created_at,
   message_count |-> Len(sortedMessages)]

\* conversationMap.get(conversationId): the messages of one conversation in
\* input order
MessagesOf(messages, conversationId) ==
  SelectSeq(messages, LAMBDA m : m.conversation_id = conversationId)

\* The positions at which a conversation_id occurs for the first time: the
\* Map iterates its keys in this order.
FirstOccurrences(messages) ==
  {i \in DOMAIN messages :
     \A j \in 1..(i - 1) : messages[j].conversation_id # messages[i].conversation_id}

NthOf(S, n) == CHOOSE x \in S : Cardinality({y \in S : y < x}) = n - 1

\* parsedConversations before the final sort
GroupedConversations(messages) ==
  [g \in 1..Cardinality(FirstOccurrences(messages)) |->
     ConversationOf(messages[NthOf(FirstOccurrences(messages), g)].conversation_id,
                    SortedMessages(MessagesOf(messages,
                      messages[NthOf(FirstOccurrences(messages), g)].conversation_id)))]

\* parsedConversations.sort((a, b) => new Date(b.start_time) - new Date(a.start_time))
ByStartTimeDescending(cs) ==
  [i \in DOMAIN cs |-> [j \in DOMAIN cs |-> TimeDifference(cs[j].start_time, cs[i].start_time)]]

\* A hook that leaves the conversations in the order of the Map
ConversationsInMapOrder(messages) == {GroupedConversations(messages)}

ParsedConversations(messages) ==
  SortOutcomes(GroupedConversations(messages),
               ByStartTimeDescending(GroupedConversations(messages)))

SyntaxErrorMessage == "Unexpected token in JSON"
NotAnArrayMessage == "messages.forEach is not a function"
NullMessageMessage == "Cannot read properties of null (reading 'conversation_id')"

\* A catch block that swallows the error
ConvFailureSilent(prev, message) == [conversations |-> prev, error |-> NoError]

\* What the throw inside the try block leaves: the catch block sets error
ConvFailure(prev, message) == [conversations |-> prev, error |-> message]

\* The try block of the effect on the non-blank lines v of logData
ConvResults(prev, v) ==
  IF ~IsJsonValue(v) THEN {ConvFailure(prev, SyntaxErrorMessage)}
  ELSE IF FirstChar(v[1]) # "[" THEN {ConvFailure(prev, NotAnArrayMessage)}
  ELSE IF v = <<"array_null">> THEN {ConvFailure(prev, NullMessageMessage)}
  ELSE {[conversations |-> cs, error |-> NoError] : cs \in ParsedConversations(ParsedMessages(v))}

\* useEffect(() => {...}, [logData]) of useConversationParser
useConversationParserEffect(data) ==
  IF data = NoData
  THEN /\ conversations' = <<>>
       /\ UNCHANGED <<cpIsLoading, cpError>>
  ELSE \E nxt \in ConvResults(conversations, NonBlank(data)) :
         /\ conversations' = nxt.conversations
         /\ cpError' = nxt.error
         /\ cpIsLoading' = FALSE

\* ------------------------------------------------------------- parseToolDetails
\* Tokens of a tool description: a parameters object written on one line, a
\* member of it written on a line of its own, and quoted example texts.
JsonX == "{\"x\":{\"type\":\"string\"}}"
MemberX == "\"x\": {\"type\": \"string\"}"
DoubleQuoted == "\"do x\""
SingleQuoted == "'do x'"

\* First position >= k holding a line break (Len+1: none)
LineEnd(t, k) == FirstOr({j \in k..Len(t) : t[j] = "\n"}, Len(t) + 1)

\* Positions where /<label>\s*([^\n]+)/ matches
LabelLineStarts(t, label) ==
  {p \in 1..Len(t) :
     /\ label \in Markers(t[p])
     /\ \E k \in (p + 1)..Len(t) :
          t[k] # "\n" /\ \A j \in (p + 1)..(k - 1) : IsWs(t[j])}

\* The capture of /<label>\s*([^\n]+)/ for the label at p, trimmed
LabelLineFrom(t, k) ==
  IF k <= Len(t) THEN Trim(SubSeq(t, k, LineEnd(t, k) - 1)) ELSE EmptyStr

\* match ? match[1].trim() : default
LabelLine(t, label, default) ==
  IF LabelLineStarts(t, label) = {} THEN default
  ELSE LabelLineFrom(t, SkipWs(t, Min(LabelLineStarts(t, label)) + 1))

\* The token starts with '{'
OpensBrace(tok) == tok \in {"{", JsonX}

\* Where the lazy [\s\S]*?\n\} can end for a '{' at k: a line break followed by '}'
ParamsEnds(t, k) ==
  {j \in (k + 1)..(Len(t) - 1) : t[j] = "\n" /\ t[j + 1] = "}"}

\* Positions where /Parameters:\s*(\{[\s\S]*?\n\})/ matches
ParamsStarts(t) ==
  {p \in 1..Len(t) :
     /\ t[p] = "Parameters:"
     /\ SkipWs(t, p + 1) <= Len(t)
     /\ OpensBrace(t[SkipWs(t, p + 1)])
     /\ ParamsEnds(t, SkipWs(t, p + 1)) # {}}

\* paramsMatch[1] for the '{' at k
ParamsCapture(t, k) == SubSeq(t, k, Min(ParamsEnds(t, k)) + 1)

NotWs(tok) == ~IsWs(tok)

\* What stands between the outer braces of the capture, white space dropped
InnerTokens(cap) == SelectSeq(SubSeq(cap, 2, Len(cap) - 1), NotWs)

\* JSON.parse(paramText) returns: the capture is '{' members '}'
JsonParses(cap) == cap[1] = "{" /\ InnerTokens(cap) \in {<<>>, <<MemberX>>}

\* A line of the capture matches /^\s*"([^"]+)":\s*\{/
KeyedLine(cap) ==
  \E i \in 2..Len(cap) :
     /\ cap[i] = MemberX
     /\ \E b \in 2..i :
          cap[b - 1] = "\n" /\ \A j \in b..(i - 1) : cap[j] = " "

NoParameters == [kind |-> "absent", members |-> {}]

\* result.parameters for the capture: the parsed object, the object
\* reconstructed line by line, or { raw }
ParametersOf(cap) ==
  IF JsonParses(cap)
  THEN [kind |-> "parsed",
        members |-> IF InnerTokens(cap) = <<>> THEN {}
                    ELSE {[key |-> "x", type |-> "string", description |-> Undefined]}]
  ELSE IF KeyedLine(cap)
  THEN [kind |-> "scanned",
        members |-> {[key |-> "x", type |-> "string", description |-> ""]}]
  ELSE [kind |-> "raw", members |-> {}]

Parameters(t) ==
  IF ParamsStarts(t) = {} THEN NoParameters
  ELSE ParametersOf(ParamsCapture(t, SkipWs(t, Min(ParamsStarts(t)) + 1)))

\* The text between the quotes when the token starts with a quoted text
QuotedText(tok, quote) ==
  CASE tok = DoubleQuoted /\ quote = "\"" -> <<"do x">>
    [] tok = MemberX /\ quote = "\"" -> <<"x">>
    [] tok = SingleQuoted /\ quote = "'" -> <<"do x">>
    [] OTHER -> NoText

\* Positions where /Example:\s*<quote>([^<quote>]+)<quote>/ matches
QuotedExamples(t, quote) ==
  {p \in 1..Len(t) :
     /\ t[p] = "Example:"
     /\ SkipWs(t, p + 1) <= Len(t)
     /\ QuotedText(t[SkipWs(t, p + 1)], quote) # NoText}

\* The token matches \w+:
WordLabel(tok) ==
  tok \in {"Tool:", "Description:", "Parameters:", "Example:", "Action:",
           "Thought:", "Observation:", "Response:"}

\* (Action:.*?)(?:\n\w+:|$) matches from k: the line of k is the last one or
\* a label line follows it
ActionRunsToLabel(t, k) ==
  \/ LineEnd(t, k) = Len(t) + 1
  \/ (LineEnd(t, k) < Len(t) /\ WordLabel(t[LineEnd(t, k) + 1]))

\* Positions where /Example:\s*(Action:.*?)(?:\n\w+:|$)/ matches
ActionExamples(t) ==
  {p \in 1..Len(t) :
     /\ t[p] = "Example:"
     /\ SkipWs(t, p + 1) <= Len(t)
     /\ t[SkipWs(t, p + 1)] = "Action:"
     /\ ActionRunsToLabel(t, SkipWs(t, p + 1))}

\* The first example pattern that matches gives result.example
Example(t) ==
  IF QuotedExamples(t, "\"") # {}
  THEN QuotedText(t[SkipWs(t, Min(QuotedExamples(t, "\"")) + 1)], "\"")
  ELSE IF QuotedExamples(t, "'") # {}
  THEN QuotedText(t[SkipWs(t, Min(QuotedExamples(t, "'")) + 1)], "'")
  ELSE IF ActionExamples(t) # {}
  THEN LabelLineFrom(t, SkipWs(t, Min(ActionExamples(t)) + 1))
  ELSE NoText

\* parseToolDetails returns undefined
NoToolDetails ==
  [name |-> NoText, description |-> NoText, parameters |-> NoParameters,
   example |-> NoText]

parseToolDetails(toolText) ==
  IF ~ToolMatch(toolText) THEN NoToolDetails
  ELSE [name |-> LabelLine(toolText, "Tool:", EmptyStr),
        description |-> LabelLine(toolText, "Description:", EmptyStr),
        parameters |-> Parameters(toolText),
        example |-> Example(toolText)]

\* result.toolDetails of extractAgentContent for a content
ToolDetailsOf(content) ==
  IF Includes(content, "Tool:") /\ Includes(content, "Parameters:")
  THEN parseToolDetails(content)
  ELSE NoToolDetails

\* Lines of tool descriptions
ToolLineKinds ==
  {"tool", "desc", "params_one", "params_open", "member", "close",
   "example_dq", "example_sq", "example_action", "note"}

ToolLine(kind) ==
  CASE kind = "tool" -> <<"Tool:", " ", "foo">>
    [] kind = "desc" -> <<"Description:", " ", "bar">>
    [] kind = "params_one" -> <<"Parameters:", " ", JsonX>>
    [] kind = "params_open" -> <<"Parameters:", " ", "{">>
    [] kind = "member" -> <<" ", MemberX>>
    [] kind = "close" -> <<"}">>
    [] kind = "example_dq" -> <<"Example:", " ", DoubleQuoted>>
    [] kind = "example_sq" -> <<"Example:", " ", SingleQuoted>>
    [] kind = "example_action" -> <<"Example:", " ", "Action:", " ", "go">>
    [] OTHER -> <<"plan">>

\* The lines joined with line breaks
RECURSIVE JoinLines(_)
JoinLines(kinds) ==
  IF kinds = <<>> THEN <<>>
  ELSE IF Len(kinds) = 1 THEN ToolLine(kinds[1])
  ELSE ToolLine(kinds[1]) \o <<"\n">> \o JoinLines(Tail(kinds))

ToolTexts ==
  {JoinLines(kinds) : kinds \in UNION {[1..n -> ToolLineKinds] : n \in 1..MaxToolLines}}

\* ------------------------------------------------------------- classifier inputs
ClsTokens ==
  {"Received chat request:", "Integration in progress. Now using model:",
   "Integration in progress. Using model:", "Intelligence upgraded to level", "Adding observation to messages:",
   ResourceAdditionToken, "using CACHED system prompt", "System Prompt:",
   "Chat Agent model response:", "Fetching truncated resources",
   "Executing service tool", "Action 1/8 executed", "Observation:",
   "Associated Resources:", "Tool:", "Parameters:", "Error:", "failed",
   "Request completed:", "Settings updated:", "Thought:", "plan", "\n"}

ClsMessages == UNION {[1..n -> ClsTokens] : n \in 1..MaxTokens}

ClsEntries ==
  {Entry(m, level, lg[1], Undefined, Undefined, lg[2], x[1], x[2], 0) :
     m \in ClsMessages, level \in {"INFO", "ERROR"},
     lg \in {<<"app.agents.base_agent", <<"Integrations Agent">>>>, <<"app.main", NoText>>},
     x \in {<<NoText, Undefined>>, <<<<"plan">>, Undefined>>,
            <<NoText, "fetch_service_resources">>, <<NoText, "service_tool_call">>}}

\* ------------------------------------------------------------- parseSystemPromptCache
\* The tokens of a system prompt: the cache markers, a marker that is never
\* closed, words and white space
PromptTokens == {"[CACHED:EPHEMERAL]", "[UNCACHED]", "[CACHED:", "plan", " "}

\* The token is a whole match of /\[(?:CACHED:[^\]]+|UNCACHED)\]/
IsCacheMarker(tok) == tok \in {"[CACHED:EPHEMERAL]", "[UNCACHED]"}

\* The first cache marker after position i (0: none).  It holds the first
\* ']' after i, so an unclosed '[CACHED:' at i matches up to its end.
NextCacheMarker(text, i) ==
  FirstOr({j \in (i + 1)..Len(text) : IsCacheMarker(text[j])}, 0)

\* The text of a marker token without its closing ']'
Unclosed(tok) == IF tok = "[UNCACHED]" THEN "[UNCACHED" ELSE "[CACHED:EPHEMERAL"

\* A part of promptText.split(...): a run of content or a captured marker
ContentPart(run) == [marker |-> "none", text |-> run, type |-> <<>>]

MarkerPart(tok) ==
  IF tok = "[UNCACHED]" THEN [marker |-> "uncached", text |-> <<tok>>, type |-> <<"uncached">>]
  ELSE [marker |-> "cached", text |-> <<tok>>, type |-> <<"EPHEMERAL">>]

\* The marker that runs from the unclosed '[CACHED:' at i to the end of the
\* marker token at j; its type is all the text in between
SpanningMarker(text, i, j) ==
  [marker |-> "cached", text |-> SubSeq(text, i, j),
   type |-> SubSeq(text, i + 1, j - 1) \o <<Unclosed(text[j])>>]

\* promptText.split(/(\[(?:CACHED:[^\]]+|UNCACHED)\])/), run the content
\* read since the last marker
RECURSIVE SplitParts(_, _, _)
SplitParts(text, i, run) ==
  IF i > Len(text) THEN <<ContentPart(run)>>
  ELSE IF IsCacheMarker(text[i])
  THEN <<ContentPart(run), MarkerPart(text[i])>> \o SplitParts(text, i + 1, <<>>)
  ELSE IF text[i] = "[CACHED:" /\ NextCacheMarker(text, i) # 0
  THEN <<ContentPart(run), SpanningMarker(text, i, NextCacheMarker(text, i))>>
       \o SplitParts(text, NextCacheMarker(text, i) + 1, <<>>)
  ELSE SplitParts(text, i + 1, Append(run, text[i]))

\* sections.push({content: part, cached: currentCachedState, type: currentType})
Section(content, cached, type) == [content |-> content, cached |-> cached, type |-> type]

\* The for loop over parts; part is parts[i].trim()
RECURSIVE CacheLoop(_, _, _, _, _, _)
CacheStep(parts, i, part, cached, type, seen, sections) ==
  IF part = <<>> THEN CacheLoop(parts, i + 1, cached, type, seen, sections)
  ELSE IF parts[i].marker = "cached"
  THEN CacheLoop(parts, i + 1, TRUE, parts[i].type, TRUE, sections)
  ELSE IF part[1] = "[CACHED:"
  THEN CacheLoop(parts, i + 1, TRUE, <<"cached">>, TRUE, sections)
  ELSE IF parts[i].marker = "uncached"
  THEN CacheLoop(parts, i + 1, FALSE, <<"uncached">>, TRUE, sections)
  ELSE IF ~seen THEN CacheLoop(parts, i + 1, cached, type, seen, sections)
  ELSE CacheLoop(parts, i + 1, cached, type, seen,
                 Append(sections, Section(part, cached, type)))

CacheLoop(parts, i, cached, type, seen, sections) ==
  IF i > Len(parts) THEN sections
  ELSE CacheStep(parts, i, Trim(parts[i].text), cached, type, seen, sections)

\* A result that keeps an empty section list
SectionsAsParsed(sections, promptText) == sections

\* If no sections were parsed, the entire prompt is the content
SectionsOrFull(sections, promptText) ==
  IF sections = <<>> THEN <<Section(promptText, FALSE, <<"full">>)>> ELSE sections

CacheInfo(sections) ==
  [isCached |-> \E n \in DOMAIN sections : sections[n].cached,
   sections |-> sections,
   totalSections |-> Len(sections)]

\* promptText.includes('[CACHED:') || promptText.includes('[UNCACHED]')
hasCacheMarkers(promptText) ==
  \E n \in DOMAIN promptText : promptText[n] \in {"[CACHED:EPHEMERAL]", "[UNCACHED]", "[CACHED:"}

parseSystemPromptCache(promptText) ==
  IF promptText = EmptyStr THEN Undefined
  ELSE IF ~hasCacheMarkers(promptText)
  THEN CacheInfo(<<Section(promptText, FALSE, <<"full">>)>>)
  ELSE CacheInfo(SectionsOrFull(
         CacheLoop(SplitParts(promptText, 1, <<>>), 1, FALSE, <<>>, FALSE, <<>>),
         promptText))

PromptTexts == UNION {[1..n -> PromptTokens] : n \in 0..MaxPromptTokens}

\* Observation records: the prefix followed by a payload
ObsTokens ==
  {" ", "Observation:", "plan", StatusPayload, ResultsPayload, ObjectPayload,
   TitlesPayload, NullsPayload, EmptyArrayPayload, BrokenPayload}

ObsMessages == {<<ObservationPrefix>> \o p : p \in UNION {[1..n -> ObsTokens] : n \in 0..MaxTokens}}

ObsEntries ==
  {Entry(m, "INFO", "app.agents.base_agent", "U1", "R1", name, NoText, Undefined, 0) :
     m \in ObsMessages, name \in {<<"Integrations Agent">>, NoText}}

\* ------------------------------------------------------------- specifications
\* The hooks before any logData
HooksInit ==
  /\ logData = NoData
  /\ requests = <<>>
  /\ isLoading = FALSE
  /\ error = NoError
  /\ entries = <<>>
  /\ lpIsLoading = FALSE
  /\ lpError = NoError
  /\ dataFormat = "null"
  /\ formatMessage = NoMessage
  /\ conversations = <<>>
  /\ cpIsLoading = FALSE
  /\ cpError = NoError

\* No helper function is being applied
FnIdle ==
  /\ fnArg = <<>>
  /\ fnResult = <<>>
  /\ fnDone = TRUE

\* The hooks before any logData, given the record the classifier will be tried on
InitWith(entry) ==
  /\ HooksInit
  /\ clsEntry = entry
  /\ clsStep = NoStep
  /\ clsDone = FALSE
  /\ FnIdle

\* The record the classifier is tried on when no record is being classified
IdleEntry ==
  Entry(<<"plan">>, "INFO", "app.main", Undefined, Undefined, NoText, NoText, Undefined, 0)

\* A helper function is about to be applied to x
InitApply(x) ==
  /\ HooksInit
  /\ clsEntry = IdleEntry
  /\ clsStep = NoStep
  /\ clsDone = TRUE
  /\ fnArg = x
  /\ fnResult = <<>>
  /\ fnDone = FALSE

Init ==
  InitWith(IdleEntry)

\* LogViewer hands the same logData to both hooks; their effects run when it
\* changes.
SetLogData(data) ==
  /\ logData' = data
  /\ useAgentFlowParserEffect(data)
  /\ useLogParserEffect(data)
  /\ UNCHANGED <<clsVars, fnVars, convVars>>

\* A line is added to the log that is shown
AppendLine(kind) ==
  /\ Len(logData) < MaxLines
  /\ SetLogData(Append(logData, kind))

\* The log is closed: logData becomes null
ClearData ==
  /\ logData # NoData
  /\ SetLogData(NoData)

Next ==
  \/ \E kind \in FlowLines : AppendLine(kind)
  \/ ClearData

Spec == Init /\ [][Next]_vars

\* useLogParser alone, on blobs of every shape
AppendLogLine(kind) ==
  /\ Len(logData) < MaxLines
  /\ logData' = Append(logData, kind)
  /\ useLogParserEffect(Append(logData, kind))
  /\ UNCHANGED <<flowVars, clsVars, fnVars, convVars>>

ClearLogData ==
  /\ logData # NoData
  /\ logData' = NoData
  /\ useLogParserEffect(NoData)
  /\ UNCHANGED <<flowVars, clsVars, fnVars, convVars>>

NextLog ==
  \/ \E kind \in LogLines : AppendLogLine(kind)
  \/ ClearLogData

SpecLog == Init /\ [][NextLog]_vars

\* The step classifier applied to one record, any record of ClsEntries
InitClassify == \E entry \in ClsEntries : InitWith(entry)

Classify ==
  /\ ~clsDone
  /\ clsStep' = convertLogEntryToStep(clsEntry, 0)
  /\ clsDone' = TRUE
  /\ UNCHANGED <<clsEntry, logData, flowVars, logVars, fnVars, convVars>>

NextClassify == Classify

SpecClassify == InitClassify /\ [][NextClassify]_vars

\* Both classifiers applied to one observation record, any of ObsEntries
InitObservation == \E entry \in ObsEntries : InitWith(entry)

ClassifyByHook ==
  /\ ~clsDone
  /\ Includes(clsEntry.message, ObservationPrefix)
  /\ clsStep' = HookObservationStep(clsEntry, 0)
  /\ clsDone' = TRUE
  /\ UNCHANGED <<clsEntry, logData, flowVars, logVars, fnVars, convVars>>

NextObservation ==
  \/ Classify
  \/ ClassifyByHook

SpecObservation == InitObservation /\ [][NextObservation]_vars

\* Tool-detail extraction applied to one tool description
InitTool == \E text \in ToolTexts : InitApply(text)

ExtractToolDetails ==
  /\ ~fnDone
  /\ fnResult' = ToolDetailsOf(fnArg)
  /\ fnDone' = TRUE
  /\ UNCHANGED <<fnArg, logData, flowVars, logVars, clsVars, convVars>>

NextTool == ExtractToolDetails

SpecTool == InitTool /\ [][NextTool]_vars

\* useConversationParser alone, on blobs made of the lines of message arrays
AppendConvLine(kind) ==
  /\ Len(logData) < MaxLines
  /\ logData' = Append(logData, kind)
  /\ useConversationParserEffect(Append(logData, kind))
  /\ UNCHANGED <<flowVars, logVars, clsVars, fnVars>>

ClearConvData ==
  /\ logData # NoData
  /\ logData' = NoData
  /\ useConversationParserEffect(NoData)
  /\ UNCHANGED <<flowVars, logVars, clsVars, fnVars>>

NextConv ==
  \/ \E kind \in ConvLines : AppendConvLine(kind)
  \/ ClearConvData

SpecConv == Init /\ [][NextConv]_vars

\* Cache-annotation extraction applied to one system prompt text
InitPrompt == \E promptText \in PromptTexts : InitApply(promptText)

ParsePromptCache ==
  /\ ~fnDone
  /\ fnResult' = parseSystemPromptCache(fnArg)
  /\ fnDone' = TRUE
  /\ UNCHANGED <<fnArg, logData, flowVars, logVars, clsVars, convVars>>

NextPrompt == ParsePromptCache

SpecPrompt == InitPrompt /\ [][NextPrompt]_vars

\* ------------------------------------------------------------- parseAgentConversations
\* The identity/time-window grouper of the earlier hook. A record is its
\* identity, its timestamp in minutes and its position n in logEntries; a
\* conversation key is a text, written as the sequence of its pieces.
MaxGroupEntries == 3
GroupUsers == {"U1", "U10", Undefined}
GroupRequests == {"R1", Undefined}
GroupMinutes == {0, 4, 10}
FiveMinutes == 5

\* The text of a user_id, piece by piece: the text "U1" begins the text "U10"
UserIdText(user_id) ==
  CASE user_id = "U1" -> <<"U", "1">>
    [] user_id = "U10" -> <<"U", "1", "0">>
    [] OTHER -> <<"unknown_user">>

\* let conversationId = entry.user_id || 'unknown_user', then
\* `${conversationId}_${entry.request_id}` when there is a request_id
ConversationIdOf(entry) ==
  IF entry.request_id # Undefined
  THEN UserIdText(entry.user_id) \o <<"_", entry.request_id>>
  ELSE UserIdText(entry.user_id)

\* key.startsWith(entry.user_id)
KeyStartsWith(key, user_id) ==
  /\ Len(key) >= Len(UserIdText(user_id))
  /\ SubSeq(key, 1, Len(UserIdText(user_id))) = UserIdText(user_id)

\* Math.abs(timeDiff) < 5 * 60 * 1000 against the conversation's last entry
WithinFiveMinutes(entry, conv) ==
  \E lastEntry \in {conv.entries[Len(conv.entries)]} :
     IF entry.timestamp >= lastEntry.timestamp
     THEN entry.timestamp - lastEntry.timestamp < FiveMinutes
     ELSE lastEntry.timestamp - entry.timestamp < FiveMinutes

\* The places in the map, in insertion order, of the conversations the
\* for loop would choose for the entry
CloseConversations(map, entry) ==
  {k \in DOMAIN map : KeyStartsWith(map[k].id, entry.user_id)
                      /\ WithinFiveMinutes(entry, map[k])}

\* The conversationId the entry is filed under
TargetConversationId(map, entry) ==
  IF entry.request_id = Undefined /\ entry.user_id # Undefined
     /\ CloseConversations(map, entry) # {}
  THEN map[Min(CloseConversations(map, entry))].id
  ELSE ConversationIdOf(entry)

\* conversationMap.get(conversationId)!.push(entry), after set(conversationId, [])
\* for a new key
PlaceEntry(map, entry, conversationId) ==
  IF \E k \in DOMAIN map : map[k].id = conversationId
  THEN [k \in DOMAIN map |->
          IF map[k].id = conversationId
          THEN [map[k] EXCEPT !.entries = Append(@, entry)]
          ELSE map[k]]
  ELSE Append(map, [id |-> conversationId, entries |-> <<entry>>])

\* logEntries.forEach(entry => {...}) from entry i on
RECURSIVE GroupLoop(_, _, _)
GroupLoop(logEntries, i, map) ==
  IF i > Len(logEntries) THEN map
  ELSE GroupLoop(logEntries, i + 1,
                 PlaceEntry(map, logEntries[i],
                            TargetConversationId(map, logEntries[i])))

\* The conversations in map order, each with the entries its steps are made of
parseAgentConversations(logEntries) ==
  [k \in DOMAIN GroupLoop(logEntries, 1, <<>>) |->
     [id |-> GroupLoop(logEntries, 1, <<>>)[k].id,
      user_id |-> GroupLoop(logEntries, 1, <<>>)[k].entries[1].user_id,
      request_id |-> GroupLoop(logEntries, 1, <<>>)[k].entries[1].request_id,
      entries |-> GroupLoop(logEntries, 1, <<>>)[k].entries]]

GroupEntry(user_id, request_id, timestamp, n) ==
  [user_id |-> user_id, request_id |-> request_id, timestamp |-> timestamp, n |-> n]

GroupEntryKinds == GroupUsers \X GroupRequests \X GroupMinutes

GroupInputs ==
  {[n \in DOMAIN kinds |-> GroupEntry(kinds[n][1], kinds[n][2], kinds[n][3], n)] :
     kinds \in UNION {[1..len -> GroupEntryKinds] : len \in 0..MaxGroupEntries}}

\* The grouper applied to one list of parsed entries
InitGroup == \E logEntries \in GroupInputs : InitApply(logEntries)

GroupConversations ==
  /\ ~fnDone
  /\ fnResult' = parseAgentConversations(fnArg)
  /\ fnDone' = TRUE
  /\ UNCHANGED <<fnArg, logData, flowVars, logVars, clsVars, convVars>>

NextGroup == GroupConversations

SpecGroup == InitGroup /\ [][NextGroup]_vars

\* ------------------------------------------------------------- properties
\* The records the flow hook reads from the current logData
Records == ParseLines(logData)

\* Every record carries a message
Valid == \A k \in 1..Len(Records) : HasMessage(Records[k])

\* Records s..e are an open/close window: s opens it, e is the first record
\* that closes it, and no record after s opens it again.
IsWindow(s, e) ==
  /\ s <= e
  /\ IsStartMarker(Records[s])
  /\ IsEndMarker(Records[e])
  /\ \A k \in (s + 1)..e : ~IsStartMarker(Records[k])
  /\ \A k \in s..(e - 1) : ~IsEndMarker(Records[k])

InClosedWindow(k) ==
  \E s \in 1..k : \E e \in k..Len(Records) : IsWindow(s, e)

\* The classifier returns null for the record
Discards(entry) == convertLogEntryToStep(entry, 0) = NoStep

\* The timestamps (record identities) of a list of records or steps
Stamps(seq) == {seq[k].timestamp : k \in 1..Len(seq)}

RECURSIVE StepsIn(_)
StepsIn(reqs) ==
  IF reqs = <<>> THEN 0 ELSE Len(Head(reqs).steps) + StepsIn(Tail(reqs))

\* The step's extracted thought is non-empty
HasThought(step) ==
  /\ step.extractedContent.thought # NoText
  /\ Trim(step.extractedContent.thought) # EmptyStr

ThoughtSteps(request) ==
  {k \in 1..Len(request.steps) : HasThought(request.steps[k])}

ThoughtOrMentionSteps(request) ==
  {k \in 1..Len(request.steps) :
     HasThought(request.steps[k]) \/ Includes(request.steps[k].content, "Thought:")}

\* C1 as stated: in every Conversation summary.total_steps is the number of
\* steps whose extracted thought is non-empty, and at most steps.length.
C1_TotalStepsCountsExtractedThoughts ==
  \A r \in 1..Len(requests) :
     /\ requests[r].summary.total_steps = Cardinality(ThoughtSteps(requests[r]))
     /\ requests[r].summary.total_steps <= Len(requests[r].steps)

\* C1 amended: in every Conversation summary.total_steps is the number of
\* steps whose content contains 'Thought:' or whose extracted thought is
\* non-empty, and at most steps.length.
C1_TotalStepsCountsThoughtSteps ==
  \A r \in 1..Len(requests) :
     /\ requests[r].summary.total_steps = Cardinality(ThoughtOrMentionSteps(requests[r]))
     /\ requests[r].summary.total_steps <= Len(requests[r].steps)

\* A Conversation that counts a step with 'Thought:' in its content and no
\* extracted thought, beside a step it does not count.
C1_Witness ==
  \E r \in 1..Len(requests) :
     /\ \E k \in 1..Len(requests[r].steps) :
          /\ Includes(requests[r].steps[k].content, "Thought:")
          /\ ~HasThought(requests[r].steps[k])
     /\ requests[r].summary.total_steps >= 1
     /\ requests[r].summary.total_steps < Len(requests[r].steps)

\* The Conversation has a record or a step of window s..e
Touches(request, s, e) ==
  \E k \in s..e : Records[k].timestamp \in Stamps(request.entries) \cup Stamps(request.steps)

\* The Conversation is made of window s..e: its records are the window's, and
\* its steps are those of the window's records the classifier keeps.
Covers(request, s, e) ==
  /\ request.entries = SubSeq(Records, s, e)
  /\ Stamps(request.steps) =
       {Records[k].timestamp : k \in {j \in s..e : ~Discards(Records[j])}}

\* C2: for every open/close window, whatever its records' user_id and
\* request_id, a Conversation that holds a record or a Step of the window is
\* made of the whole window (all its records, the Steps of all of them), and
\* when the parse returns there is such a Conversation.
C2_WindowLandsInOneConversation ==
  \A s \in 1..Len(Records) : \A e \in s..Len(Records) :
     IsWindow(s, e) =>
       /\ \A r \in 1..Len(requests) :
            Touches(requests[r], s, e) => Covers(requests[r], s, e)
       /\ Valid => \E r \in 1..Len(requests) : Covers(requests[r], s, e)

\* A window of three records or more, with records of two identities, whose
\* Conversation has two Steps or more.
C2_Witness ==
  \E s \in 1..Len(Records) : \E e \in (s + 2)..Len(Records) :
     /\ IsWindow(s, e)
     /\ \E k \in s..e : Records[k].user_id = "U2"
     /\ \E r \in 1..Len(requests) :
          Covers(requests[r], s, e) /\ Len(requests[r].steps) >= 2

\* C3: the record windows of distinct Conversations are disjoint, and no
\* record has its Step in two Conversations.
C3_ConversationsDisjoint ==
  \A r1 \in 1..Len(requests) : \A r2 \in 1..Len(requests) :
     r1 # r2 =>
       /\ Stamps(requests[r1].entries) \cap Stamps(requests[r2].entries) = {}
       /\ Stamps(requests[r1].steps) \cap Stamps(requests[r2].steps) = {}

\* Two Conversations, each with a Step
C3_Witness ==
  /\ Len(requests) >= 2
  /\ \A r \in 1..Len(requests) : Len(requests[r].steps) >= 1

\* Every non-blank line of the blob parses
AllLinesParse ==
  \A n \in 1..Len(logData) : LineBlank(logData[n]) \/ LineParses(logData[n])

MatchesEarlierRule(entry) ==
  \/ Includes(entry.message, "Received chat request:")
  \/ Includes(entry.message, "Integration in progress. Now using model:")
  \/ Includes(entry.message, "Intelligence upgraded to level")
  \/ Includes(entry.message, "Adding observation to messages:")
  \/ Includes(entry.message, ResourceAdditionToken)
  \/ Includes(entry.message, "using standard (uncached) system prompt")
  \/ Includes(entry.message, "using CACHED system prompt")
  \/ Truthy(entry.system_prompt)
  \/ StartsWithSystemPrompt(entry.message)
  \/ Includes(entry.message, "model response:")
  \/ entry.action \in {"fetch_service_resources", "service_tool_call"}
  \/ Includes(entry.message, "Fetching truncated resources")
  \/ (Includes(entry.message, "Found") /\ Includes(entry.message, "truncated resources"))
  \/ (Includes(entry.message, "Added") /\ Includes(entry.message, "integration script tags"))
  \/ Includes(entry.message, "Executing service tool")
  \/ Includes(entry.message, "Successfully executed service tool")
  \/ Includes(entry.message, "Action 1/8 executed")
  \/ /\ Includes(entry.message, "Observation:")
     /\ \/ Includes(entry.message, "Associated Resources:")
        \/ Includes(entry.message, "Available service tools:")
        \/ Includes(entry.message, "[Memory Resources]")
        \/ Includes(entry.message, "SMS sent successfully")
  \/ (Includes(entry.message, "Tool:") /\ Includes(entry.message, "Parameters:"))

\* C5 as stated: a record whose level is ERROR is classified as a Step of
\* type error, whatever other markers its message matches.
C5_ErrorLevelIsErrorStep ==
  (clsDone /\ clsEntry.level = "ERROR") => clsStep.type = "error"

\* C5 amended: a record whose level is ERROR is classified as a Step of type
\* error exactly when it matches none of the rules tried before the error
\* rule; the suppression list never discards it.
C5_ErrorLevelIsErrorStepUnlessEarlierRule ==
  (clsDone /\ clsEntry.level = "ERROR") =>
    (clsStep.type = "error" <=> ~MatchesEarlierRule(clsEntry))

\* An ERROR record of a routine logger with a routine message, kept as an
\* error Step
C5_Witness ==
  /\ clsDone
  /\ clsEntry.level = "ERROR"
  /\ clsEntry.logger = "app.main"
  /\ Includes(clsEntry.message, "Settings updated:")
  /\ clsStep.type = "error"

\* The 'hi' example: the first record is the chat request of (U1, R1), one
\* later record is its 'Request completed:' marker, and no other record is a
\* start or end marker.
HiExample ==
  /\ Valid
  /\ Len(Records) >= 2
  /\ Records[1].message =
       <<"Received chat request:", " ", "message='", "hi", "',", " ", "history_count=", "0">>
  /\ Records[1].user_id = "U1"
  /\ Records[1].request_id = "R1"
  /\ \A k \in 2..Len(Records) : ~IsStartMarker(Records[k])
  /\ \E e \in 2..Len(Records) :
       /\ Records[e].message[1] = "Request completed:"
       /\ Records[e].request_id = "R1"
       /\ \A k \in 1..Len(Records) : k # e => ~IsEndMarker(Records[k])

\* C6: the 'hi' example produces exactly one Conversation, keyed on (U1, R1),
\* with exactly one initial_request Step, whose content is "hi".
C6_HiExample ==
  HiExample =>
    /\ Len(requests) = 1
    /\ requests[1].id = <<"U1", "_", "R1">>
    /\ requests[1].user_id = "U1"
    /\ requests[1].request_id = "R1"
    /\ Cardinality({j \in 1..Len(requests[1].steps) :
                      requests[1].steps[j].type = "initial_request"}) = 1
    /\ \A j \in 1..Len(requests[1].steps) :
         requests[1].steps[j].type = "initial_request" =>
           requests[1].steps[j].content = <<"hi">>

\* The example with other records between the two markers
C6_Witness ==
  /\ HiExample
  /\ Len(Records) >= 3
  /\ Len(requests) = 1
  /\ Len(requests[1].steps) >= 2

\* The blob is a JSON array: its text starts with '[', ends with ']' and parses
IsArrayBlob ==
  /\ NonBlank(logData) # <<>>
  /\ FirstChar(NonBlank(logData)[1]) = "["
  /\ LastChar(NonBlank(logData)[Len(NonBlank(logData))]) = "]"
  /\ IsJsonValue(NonBlank(logData))

\* The blob is line-delimited: it has non-blank lines, each starting with '{'
IsDelimitedBlob ==
  /\ NonBlank(logData) # <<>>
  /\ \A n \in 1..Len(logData) : LineBlank(logData[n]) \/ FirstChar(logData[n]) = "{"

\* C7: a blob that is neither a JSON array nor line-delimited JSON is detected
\* as unknown, yields zero entries, leaves error null and sets the
\* explanatory format message.
C7_UnknownBlobIsExplained ==
  (logData # NoData /\ ~IsArrayBlob /\ ~IsDelimitedBlob) =>
    /\ dataFormat = "unknown"
    /\ entries = <<>>
    /\ lpError = NoError
    /\ lpIsLoading = FALSE
    /\ formatMessage =
         FormatMessage("Unsupported data format. Expected NDJSON logs or agent flow JSON arrays.", 0)

\* A blob of a record line and a plain text line
C7_Witness ==
  /\ \E n \in 1..Len(logData) : logData[n] = "text"
  /\ \E n \in 1..Len(logData) : logData[n] = "entry"
  /\ dataFormat = "unknown"
  /\ formatMessage # NoMessage

\* C8 as stated: the Conversations the hook shows for a blob are those of
\* parsing that blob from the hook's initial state, whatever was parsed before.
C8_OutputDependsOnBlobOnly ==
  requests = FlowEffect(FlowInit, logData).requests

\* C9 as stated: every record with a message that lies in a closed window and
\* that the classifier does not discard has its Step in the output, whatever
\* the other records are.
C9_OtherRecordsKeepTheirSteps ==
  \A k \in 1..Len(Records) :
     (HasMessage(Records[k]) /\ InClosedWindow(k) /\ ~Discards(Records[k])) =>
       \E r \in 1..Len(requests) : Records[k].timestamp \in Stamps(requests[r].steps)

\* The positions of the non-blank lines that parse
ParsingLines ==
  {n \in 1..Len(logData) : ~LineBlank(logData[n]) /\ LineParses(logData[n])}

\* The records of the lines that parse, in the order of the lines
ParsedInOrder ==
  [i \in 1..Cardinality(ParsingLines) |->
     LineValue(logData[CHOOSE n \in ParsingLines :
                         Cardinality({p \in ParsingLines : p <= n}) = i],
               CHOOSE n \in ParsingLines :
                 Cardinality({p \in ParsingLines : p <= n}) = i)]

\* C10: for a delimited blob the record sequence is exactly the non-blank
\* lines that parse, in their order; a line that fails to parse sets no error
\* in either hook and does not stop the flow hook from parsing the rest.
C10_BadLinesAreSkipped ==
  (logData # NoData /\ dataFormat = "ndjson") =>
    /\ entries = ParsedInOrder
    /\ lpError = NoError
    /\ formatMessage.count = Cardinality(ParsingLines)
    /\ (\A i \in 1..Cardinality(ParsingLines) : HasMessage(ParsedInOrder[i])) =>
         /\ error = NoError
         /\ requests = parseAgentRequests(ParsedInOrder).value

\* A line that fails to parse between the two markers of a request
C10_Witness ==
  /\ dataFormat = "ndjson"
  /\ \E n \in 2..Len(logData) :
       /\ logData[n] = "bad"
       /\ \E a \in 1..(n - 1) : logData[a] = "start_hi"
       /\ \E b \in (n + 1)..Len(logData) : logData[b] = "completed_r1"
  /\ Len(entries) >= 2
  /\ Len(requests) = 1
  /\ error = NoError

\* The parameters object {x: {type: "string"}}
ParametersX ==
  [kind |-> "parsed",
   members |-> {[key |-> "x", type |-> "string", description |-> Undefined]}]

\* The description's first Parameters: label opens a JSON object that is
\* written on that line, or on the following lines up to a closing brace
OneLineParameters(text) ==
  \E p \in 1..Len(text) :
     /\ text[p] = "Parameters:"
     /\ \A q \in 1..(p - 1) : text[q] # "Parameters:"
     /\ p + 2 <= Len(text)
     /\ text[p + 2] = JsonX

SeveralLineParameters(text) ==
  \E p \in 1..Len(text) :
     /\ text[p] = "Parameters:"
     /\ \A q \in 1..(p - 1) : text[q] # "Parameters:"
     /\ p + 7 <= Len(text)
     /\ SubSeq(text, p + 2, p + 7) = <<"{", "\n", " ", MemberX, "\n", "}">>

\* C11 as stated: the example description yields name "foo", description
\* "bar", parameters {x: {type: "string"}} and example "do x", and a
\* Parameters JSON object is parsed into the parameters map whether it is
\* written on one line or on several.
C11_ToolDetailsExample ==
  fnDone =>
    /\ fnArg = JoinLines(<<"tool", "desc", "params_one", "example_dq">>) =>
         fnResult = [name |-> <<"foo">>, description |-> <<"bar">>,
                     parameters |-> ParametersX, example |-> <<"do x">>]
    /\ (ToolMatch(fnArg) /\ (OneLineParameters(fnArg) \/ SeveralLineParameters(fnArg))) =>
         fnResult.parameters = ParametersX

EveryLineIsObject ==
  \A n \in 1..Len(logData) : LineBlank(logData[n]) \/ FirstChar(logData[n]) = "{"

\* C13 as stated: a blob that starts with '[', ends with ']' and parses as a
\* JSON array with an element is 'conversation' when the first element has
\* conversation_id and role, else 'json-array'; else a blob whose non-blank
\* lines all start with '{' is 'ndjson'; else it is 'unknown'.
C13_FormatRule ==
  logData # NoData =>
    dataFormat =
      IF IsArrayBlob /\ ArrayItems(NonBlank(logData)) # <<>>
      THEN IF ArrayItems(NonBlank(logData))[1] = "message"
           THEN "conversation" ELSE "json-array"
      ELSE IF EveryLineIsObject THEN "ndjson"
      ELSE "unknown"

\* C13 amended: the array rule applies when the array has an element and its
\* first element is not null (a null first element falls through to the line
\* rule); the line rule applies when the blob has a non-blank line and every
\* non-blank line starts with '{'; every other blob is 'unknown'.  The
\* detection sets no error.
C13_FormatRuleWithNullAndBlank ==
  logData # NoData =>
    /\ lpError = NoError
    /\ dataFormat =
         IF /\ IsArrayBlob
            /\ ArrayItems(NonBlank(logData)) # <<>>
            /\ ArrayItems(NonBlank(logData))[1] # "null"
         THEN IF ArrayItems(NonBlank(logData))[1] = "message"
              THEN "conversation" ELSE "json-array"
         ELSE IF NonBlank(logData) # <<>> /\ EveryLineIsObject THEN "ndjson"
         ELSE "unknown"

\* An array of conversation messages spread over several lines is detected
\* as 'conversation'
C13_Witness ==
  /\ Len(logData) >= 3
  /\ logData[1] = "open"
  /\ logData[Len(logData)] = "close"
  /\ dataFormat = "conversation"

\* The current logData begins like a JSON array but is not valid JSON
BrokenArray(data) ==
  /\ NonBlank(data) # <<>>
  /\ FirstChar(NonBlank(data)[1]) = "["
  /\ ~IsJsonValue(NonBlank(data))

\* useConversationParser on a broken array: the error is set and the parse
\* attempt adds or changes no conversation.
ConvBrokenArrayFailsWhole ==
  [][BrokenArray(logData') => cpError' = SyntaxErrorMessage /\ conversations' = conversations]_vars

IsIntelligenceMarker(m) ==
  /\ m[1] \in {"Integration in progress. Using model:", "Intelligence upgraded to level"}
  /\ ~Includes(m, "Received chat request:")

\* C15: a record whose message is an intelligence/model-change marker
\* ('Integration in progress. Using model: ...' or 'Intelligence upgraded to
\* level <n>') is converted to a step of type intelligence_change.
C15_IntelligenceMarkerIsStep ==
  clsDone /\ IsIntelligenceMarker(clsEntry.message) => clsStep.type = "intelligence_change"

\* C16: a 'Request completed:' record closes only a window opened for its
\* own identity: every request that runs from a 'Received chat request:'
\* record to a 'Request completed:' record has the same request_id at both
\* ends.
C16_EndMarkerClosesOwnWindow ==
  \A k \in DOMAIN requests :
    /\ Includes(requests[k].entries[1].message, "Received chat request:")
    /\ Includes(requests[k].entries[Len(requests[k].entries)].message, "Request completed:")
    => requests[k].entries[1].request_id
         = requests[k].entries[Len(requests[k].entries)].request_id

\* No record of the request carries a user_id or a request_id
LacksIdentity(request) ==
  \A n \in DOMAIN request.entries :
    ~TruthyId(request.entries[n].user_id) /\ ~TruthyId(request.entries[n].request_id)

\* C17: a request is keyed by its identity, and a request whose records
\* carry no identity gets a key of its own: two requests that both lack any
\* identity have different keys.
C17_IdentitylessRequestsHaveOwnKeys ==
  \A j, k \in DOMAIN requests :
    j # k /\ LacksIdentity(requests[j]) /\ LacksIdentity(requests[k])
      => requests[j].id # requests[k].id

\* The record matches one of the rules tried before the suppression list
MatchesRules1To5(entry) ==
  \/ Includes(entry.message, "Received chat request:")
  \/ Includes(entry.message, "Integration in progress. Now using model:")
  \/ Includes(entry.message, "Intelligence upgraded to level")
  \/ Includes(entry.message, "Adding observation to messages:")
  \/ Includes(entry.message, ResourceAdditionToken)
  \/ Includes(entry.message, "using standard (uncached) system prompt")
  \/ Includes(entry.message, "using CACHED system prompt")
  \/ Truthy(entry.system_prompt)
  \/ StartsWithSystemPrompt(entry.message)

\* The record is on the suppression list
OnSuppressionList(entry) ==
  \/ \E pattern \in infrastructurePatterns : Includes(entry.message, pattern)
  \/ (entry.logger \in nonAgentLoggers /\ entry.level # "ERROR")

\* C18 as stated: a record that matches none of rules 1-5 and is on the
\* suppression list produces no Step, even when it also matches a later rule.
C18_SuppressionBeforeLaterRules ==
  clsDone /\ ~MatchesRules1To5(clsEntry) /\ OnSuppressionList(clsEntry)
    => clsStep = NoStep

\* C18 amended: the importance test comes before the suppression list.  A
\* record that matches none of rules 1-5 and is on the suppression list
\* produces no Step exactly when it is not important content or no later
\* rule matches it; an important record is classified by the later rules.
C18_SuppressionAfterImportance ==
  clsDone /\ ~MatchesRules1To5(clsEntry) /\ OnSuppressionList(clsEntry)
    => /\ clsStep = NoStep <=> (~shouldInclude(clsEntry) \/ StepType(clsEntry) = "null")
       /\ clsStep # NoStep => clsStep.type = StepType(clsEntry)

\* A routine 'Settings updated:' record that also carries a model response
\* has been classified: it is an agent_response Step
C18_Witness ==
  /\ clsDone
  /\ ~MatchesRules1To5(clsEntry)
  /\ Includes(clsEntry.message, "Settings updated:")
  /\ Includes(clsEntry.message, "model response:")
  /\ clsStep.type = "agent_response"

\* The payload is absent, is no JSON or has a shape the classifier does
\* not handle
PayloadNotUnderstood(m) ==
  ParsedObservation(CleanContent(m)) \in {"none", "invalid", NullsPayload}

\* C19: a record whose message contains 'Adding observation to messages:'
\* is converted to one agent_response Step; when its JSON payload is absent
\* or is not understood, the Step's observation is the text after the prefix
\* (without surrounding white space and a leading 'Observation:' label) and
\* it has no observationData.
C19_ObservationRecordIsStep ==
  clsDone /\ Includes(clsEntry.message, ObservationPrefix)
    => /\ clsStep.type = "agent_response"
       /\ PayloadNotUnderstood(clsEntry.message)
            => /\ clsStep.extractedContent.observation = CleanContent(clsEntry.message)
               /\ clsStep.extractedContent.observationData = Undefined

\* C20: for a non-empty system prompt text parseSystemPromptCache returns
\* at least one section, totalSections is the number of sections, isCached
\* holds exactly when some section is cached, and a text without any
\* [CACHED:<TYPE>] or [UNCACHED] marker gives one uncached section that
\* holds the full text.
C20_CacheSections ==
  fnDone /\ fnArg # EmptyStr
    => /\ Len(fnResult.sections) >= 1
       /\ fnResult.totalSections = Len(fnResult.sections)
       /\ fnResult.isCached <=> \E n \in DOMAIN fnResult.sections : fnResult.sections[n].cached
       /\ (\A n \in DOMAIN fnArg : ~IsCacheMarker(fnArg[n]))
            => /\ Len(fnResult.sections) = 1
               /\ ~fnResult.sections[1].cached
               /\ fnResult.sections[1].content = fnArg

\* A prompt with a cached and an uncached part has been segmented
C20_Witness ==
  /\ fnDone
  /\ fnArg = <<"[CACHED:EPHEMERAL]", "plan", "[UNCACHED]", "plan">>
  /\ fnResult.isCached
  /\ fnResult.totalSections = 2
  /\ ~fnResult.sections[2].cached

\* The record a step of the request was made from: step_<k> comes from the
\* k-th record of the window, counted from 0
SourceRecord(request, step) == request.entries[step.id + 1]

\* The steps of the request whose source record has level ERROR or an
\* embedded 'Error:' marker
ErrorSteps(request) ==
  {n \in DOMAIN request.steps :
     \/ SourceRecord(request, request.steps[n]).level = "ERROR"
     \/ Includes(SourceRecord(request, request.steps[n]).message, "Error:")}

\* C21: summary.errors of every request is the number of its steps whose
\* source record has level ERROR or a message with an 'Error:' marker;
\* records without a step are not counted, so errors <= steps.length.
C21_ErrorsCountErrorSteps ==
  \A k \in DOMAIN requests :
    /\ requests[k].summary.errors = Cardinality(ErrorSteps(requests[k]))
    /\ requests[k].summary.errors <= Len(requests[k].steps)

\* A request with an ERROR-level step, an 'Error:' step and a record that
\* gave no step has been built
C21_Witness ==
  \E k \in DOMAIN requests :
    /\ requests[k].summary.errors = 2
    /\ Len(requests[k].steps) < Len(requests[k].entries)
    /\ \E n \in DOMAIN requests[k].steps :
         /\ SourceRecord(requests[k], requests[k].steps[n]).level = "INFO"
         /\ Includes(SourceRecord(requests[k], requests[k].steps[n]).message, "Error:")

\* C22 as stated: every step made from a message that encodes an agent name
\* carries that name.
C22_MessageNameWins ==
  clsDone /\ clsStep # NoStep /\ extractActualAgentName(clsEntry.message) # NoText
    => clsStep.agent_name = extractActualAgentName(clsEntry.message)

\* C22 amended: a step made from a message that encodes an agent name
\* carries that name, unless it is an initial_request step (always 'User'),
\* an intelligence_change step (the record's agent_name field or a default)
\* or an injected-resources step (the agent named before 'added').
C22_MessageNameWinsInLaterRules ==
  /\ clsDone
  /\ clsStep # NoStep
  /\ extractActualAgentName(clsEntry.message) # NoText
  /\ clsStep.type \notin {"initial_request", "intelligence_change"}
  /\ ~resourceAdditionMatch(clsEntry.message)
  => clsStep.agent_name = extractActualAgentName(clsEntry.message)

\* A record of the Integrations Agent whose message begins 'Chat Agent model
\* response:' has become a step of the Chat Agent
C22_Witness ==
  /\ clsDone
  /\ clsEntry.agent_name = <<"Integrations Agent">>
  /\ clsEntry.message[1] = "Chat Agent model response:"
  /\ clsStep.type = "agent_response"
  /\ clsStep.agent_name = <<"Chat Agent">>

ClosingEnds == {e \in 1..Len(Records) : \E s \in 1..e : IsWindow(s, e)}

\* C24: when parseAgentRequests returns, there is exactly one request per
\* end marker reached while a window is open, in input order, and a record
\* belongs to a request exactly when it lies between the latest start marker
\* and the first end marker at or after it.
C24_OneRequestPerClosingEnd ==
  Valid =>
    /\ Len(requests) = Cardinality(ClosingEnds)
    /\ \A k \in DOMAIN requests :
         requests[k].entries[Len(requests[k].entries)] = Records[NthOf(ClosingEnds, k)]
    /\ UNION {Stamps(requests[k].entries) : k \in DOMAIN requests}
         = {Records[n].timestamp : n \in {m \in 1..Len(Records) : InClosedWindow(m)}}

\* One request has been emitted from four records: the first two precede a
\* second start marker and belong to no request
C24_Witness ==
  /\ Valid
  /\ Len(Records) = 4
  /\ IsStartMarker(Records[1])
  /\ ~IsEndMarker(Records[2])
  /\ Len(requests) = 1
  /\ requests[1].entries = SubSeq(Records, 3, 4)

\* C25: the requests of one result list have pairwise distinct ids, so
\* requests.find(c => c.id === selected) designates exactly one request.
C25_RequestIdsAreDistinct ==
  \A j, k \in DOMAIN requests : j # k => requests[j].id # requests[k].id


\* C26: within one request the steps follow the order of their source
\* records, the id of each step is the position (from 0) of its source record
\* in the request window, and so no two steps of a request share an id.
C26_StepsNumberedByWindowPosition ==
  \A k \in DOMAIN requests :
    /\ \A i \in DOMAIN requests[k].steps :
         /\ requests[k].steps[i].id \in 0 .. (Len(requests[k].entries) - 1)
         /\ requests[k].steps[i].timestamp =
              SourceRecord(requests[k], requests[k].steps[i]).timestamp
    /\ \A i, j \in DOMAIN requests[k].steps :
         i < j => requests[k].steps[i].id < requests[k].steps[j].id

\* A request with two steps whose ids are not consecutive: a record between
\* their source records produced no step
C26_Witness ==
  \E k \in DOMAIN requests :
    \E i \in DOMAIN requests[k].steps :
      /\ i + 1 \in DOMAIN requests[k].steps
      /\ requests[k].steps[i + 1].id > requests[k].steps[i].id + 1


\* The conversation lists a freshly mounted useConversationParser can expose
\* for the blob data
ConversationsOf(data) ==
  IF data = NoData THEN {<<>>}
  ELSE {nxt.conversations : nxt \in ConvResults(<<>>, NonBlank(data))}

\* C27: once the effect has run for the current logData, the exposed result
\* list was computed from the current logData or is empty; a list computed
\* from an earlier input is never exposed for a later input that failed to
\* parse.
C27_ResultIsOfCurrentInput ==
  conversations = <<>> \/ conversations \in ConversationsOf(logData)


\* C28: the hook's error is non-null only if the current logData failed to
\* parse; when logData is null or empty the hook exposes an empty result
\* list, error = null and isLoading = false.
C28_ErrorOnlyForCurrentInput ==
  /\ error # NoError => logData # NoData /\ parseAgentRequests(Records).threw
  /\ logData = NoData => requests = <<>> /\ error = NoError /\ ~isLoading


\* The places of the result that hold the entry of position n
PlacesOfEntry(n) ==
  {<<k, i>> \in (DOMAIN fnResult) \X (DOMAIN fnArg) :
     i \in DOMAIN fnResult[k].entries /\ fnResult[k].entries[i].n = n}

\* C29: parseAgentConversations places every parsed entry in exactly one
\* conversation, and an entry carrying user_id U is never placed in a
\* conversation created for a different user_id.
C29_EntriesStayWithTheirUser ==
  fnDone =>
    /\ \A n \in DOMAIN fnArg : Cardinality(PlacesOfEntry(n)) = 1
    /\ \A k \in DOMAIN fnResult : \A i \in DOMAIN fnResult[k].entries :
         fnResult[k].entries[i].user_id # Undefined =>
           fnResult[k].entries[i].user_id = fnResult[k].user_id

\* The first half of C29 alone: every entry is in exactly one conversation
C29_EveryEntryPlacedOnce ==
  fnDone => \A n \in DOMAIN fnArg : Cardinality(PlacesOfEntry(n)) = 1


\* useConversationParser parsed the current logData
ConvParsed == logData # NoData /\ cpError = NoError

\* The messages of the current logData
CurrentMessages == ParsedMessages(NonBlank(logData))

\* The places <<conversation, position>> of the exposed messages
MessagePlaces ==
  {<<k, i>> \in (DOMAIN conversations) \X (DOMAIN CurrentMessages) :
     i <= conversations[k].message_count}

\* Time a is a time and not after time b
NotAfter(a, b) == a # 0 /\ b # 0 /\ a <= b

\* The conversations partition the input messages by conversation_id and
\* message_count counts them
ConvPartition ==
  /\ \A k \in DOMAIN conversations :
       /\ conversations[k].message_count = Len(conversations[k].messages)
       /\ \A i \in DOMAIN conversations[k].messages :
            conversations[k].messages[i].conversation_id = conversations[k].id
  /\ \A n \in DOMAIN CurrentMessages :
       Cardinality({pl \in MessagePlaces :
                      conversations[pl[1]].messages[pl[2]] = CurrentMessages[n]}) = 1
  /\ Cardinality(MessagePlaces) = Len(CurrentMessages)

\* Messages in non-decreasing created_at order, start_time and end_time those
\* of the first and last message, conversations in non-increasing start_time
\* order
ConvChronological ==
  /\ \A k \in DOMAIN conversations :
       /\ \A i, j \in DOMAIN conversations[k].messages :
            i < j => NotAfter(conversations[k].messages[i].created_at,
                              conversations[k].messages[j].created_at)
       /\ conversations[k].start_time = conversations[k].messages[1].created_at
       /\ conversations[k].end_time =
            conversations[k].messages[conversations[k].message_count].created_at
  /\ \A k, l \in DOMAIN conversations :
       k < l => NotAfter(conversations[l].start_time, conversations[k].start_time)

====
